---- MODULE Spec2Model ----
(***************************************************************************)
(* A model of the Hexis agent control plane: the external-call broker      *)
(* (core/external_calls.py), the workers that service it                   *)
(* (services/worker_tasks.py, services/heartbeat_runner.py,                *)
(* services/worker_service.py, services/external_calls.py) and the         *)
(* instance deletion gate (core/instance_api.py).                          *)
(***************************************************************************)
EXTENDS Integers, Sequences, FiniteSets, TLC

(***************************************************************************)
(* Bounds of the model.                                                    *)
(***************************************************************************)
NumCalls == 2
NumClients == 2
NumOutputs == 2
MaxRetriesArg == 2
MaxOps == 5
MaxFaults == 1

CallIds == 1..NumCalls
Clients == 1..NumClients
Outputs == 1..NumOutputs

(***************************************************************************)
(* The external_calls table.  A row of it:                                 *)
(*   status         pending | processing | complete | failed               *)
(*   retry_count    the column retry_count                                 *)
(*   started        started_at IS NOT NULL                                 *)
(*   completed      completed_at IS NOT NULL                               *)
(*   output         0 for NULL, otherwise the output document              *)
(*   error          0 for NULL, 1 for an error_message                     *)
(* requested_at is the row's id: call 1 was requested first.               *)
(* effects[id] counts the domain side effects committed for call id by the *)
(* store's apply_external_call_result.                                     *)
(***************************************************************************)
VARIABLES calls, effects, rowLock, pc, target, handedOut, ops

tableVars == <<calls, effects, rowLock, pc, target, handedOut>>

brokerVars == <<tableVars, ops>>

(***************************************************************************)
(* Workers that service the queue with process_pending_call:               *)
(*   callType[id]   what the row asks for: "decision" a heartbeat_decision *)
(*                  think call with heartbeat_id set, "embed" an embed     *)
(*                  call, "think" any other call                           *)
(*   wpc[w]         the worker's position in process_pending_call          *)
(*   wcall[w]       the call the worker's claim returned, 0 for none       *)
(*   completions[id] how often call id moved to complete                   *)
(*   faults         how often the LLM or the database failed a worker      *)
(***************************************************************************)
VARIABLES callType, wpc, wcall, completions, faults

queueVars == <<callType, wpc, wcall, completions, faults>>

(***************************************************************************)
(* The heartbeat worker (HeartbeatWorker.run) and the decision loop it     *)
(* enters (execute_heartbeat_decision):                                    *)
(*   consentValid   a valid consent certificate exists for the model the   *)
(*                  instance is configured to use                          *)
(*   running        HeartbeatWorker.running                                *)
(*   connected      the worker's pool is open                              *)
(*   hpc            the worker's position                                  *)
(*   agentTerminated the store's is_agent_terminated()                     *)
(*   hbOutcome      outcome of the heartbeat in flight                     *)
(*   decision       the actions of the decision being executed             *)
(*   start_index    execute_heartbeat_decision's start_index               *)
(*   batch          what apply_heartbeat_decision returned last            *)
(*   prevStart      the start_index of the previous                        *)
(*                  apply_heartbeat_decision call of this heartbeat        *)
(*   lastService    how servicing the latest pending call ended            *)
(*   llmIssued, toolIssued  an LLM request / a tool execution was issued   *)
(***************************************************************************)
VARIABLES consentValid, running, connected, hpc, agentTerminated, hbOutcome,
          decision, start_index, batch, prevStart, lastService,
          llmIssued, toolIssued

hbVars == <<consentValid, running, connected, hpc, agentTerminated, hbOutcome,
            decision, start_index, batch, prevStart, lastService,
            llmIssued, toolIssued>>

(***************************************************************************)
(* Instances and delete_instance:                                          *)
(*   registry     names in InstanceRegistry                                *)
(*   current      the registry's current selection (0: none)               *)
(*   databases    instances whose database exists                          *)
(*   terminated, configured   is_agent_terminated() / is_agent_configured()*)
(*                of each instance's store                                 *)
(*   dpc          position of the delete_instance call in progress         *)
(*   dname, dforce, dperm   its name, force and require_permission         *)
(*   exempt       the call found the agent terminated or not configured    *)
(*   review       the review the call holds: "none", "confirm", "refuse"   *)
(*   reviewRaw    what the LLM answered to the termination review          *)
(*   written      where the review of this call was persisted              *)
(*   terminatedOn the LLM answer on which terminate_agent was invoked      *)
(*   dresult      how the last call ended                                  *)
(***************************************************************************)
VARIABLES registry, current, databases, terminated, configured, dpc, dname,
          dforce, dperm, exempt, review, reviewRaw, written, terminatedOn,
          dresult

deleteVars == <<registry, current, databases, terminated, configured, dpc,
                dname, dforce, dperm, exempt, review, reviewRaw, written,
                terminatedOn, dresult>>

(***************************************************************************)
(* Consent certificates (ConsentManager):                                  *)
(*   files        the consents directory: file name -> certificate stored  *)
(*   now          the wall clock, in whole seconds                         *)
(*   lastRevoked  the (provider, model_id) of the revoke_consent that just *)
(*                returned a certificate, if that was the last operation   *)
(***************************************************************************)
VARIABLES files, now, lastRevoked

consentVars == <<files, now, lastRevoked>>

(***************************************************************************)
(* The instance delete command (_instance_delete):                         *)
(*   viaCli     the delete_instance call in progress, or the last one, was *)
(*              made by the command                                        *)
(*   cliForce   the command was given --force                              *)
(***************************************************************************)
VARIABLES viaCli, cliForce

cliVars == <<viaCli, cliForce>>

(***************************************************************************)
(* Tool execution (ToolRegistry.execute and ToolPolicy):                   *)
(*   tcall    what one execute call meets: the tool's spec, the context,   *)
(*            energy_available, the tools configuration as it bears on the *)
(*            tool, the boundary memory restricting it and its approval    *)
(*   tresult  the ToolResult returned, with the policy checks that were    *)
(*            evaluated and whether the handler was invoked                *)
(***************************************************************************)
VARIABLES tcall, tresult, tlisted

toolVars == <<tcall, tresult, tlisted>>

\* execute_batch: the calls, the parallel flag, the shared context, the
\* energy_available the caller passed in, and the calls run so far in the
\* order they ran, each with the energy it saw and the energy it spent
VARIABLES bcalls, bparallel, bcontext, bstart, bruns

batchVars == <<bcalls, bparallel, bcontext, bstart, bruns>>

\* MaintenanceWorker: its running flag, whether its pool is open, and its
\* position in run
VARIABLES mrunning, mconnected, mpc

workerVars == <<mrunning, mconnected, mpc>>

\* one think call being serviced: its kind, where it is serviced, how the
\* LLM request ended and with what content, the document chat_json handed
\* back, the document applied as the result, whether the heartbeat went on,
\* and the position in the servicing code
VARIABLES tkind, tsite, tllm, traw, tdoc, tapplied, tproceeds, tpc

thinkVars == <<tkind, tsite, tllm, traw, tdoc, tapplied, tproceeds, tpc>>

(***************************************************************************)
(* The RabbitMQ bridge (RabbitMQBridge) between the outbox_messages table, *)
(* the broker's queues and working memory:                                 *)
(*   benabled       RABBITMQ_ENABLED                                       *)
(*   outbox[i]      the status of outbox row i ("absent" before it is      *)
(*                  written)                                               *)
(*   handed         the rows whose payload a store call handed to the      *)
(*                  heartbeat worker as outbox_messages                    *)
(*   routed         the rows the broker accepted and routed                *)
(*   ppc, prow      publish_outbox_messages: its position and the row it   *)
(*                  selected                                               *)
(*   inboxQueue     the messages waiting in the broker's inbox queue       *)
(*   removed        the messages a get took off the inbox queue            *)
(*   fetched        the rest of the batch poll_inbox_messages holds        *)
(*   workingMemory  the messages add_to_working_memory wrote               *)
(*   contacted      the messages for which last_user_contact was updated   *)
(*   bpc            poll_inbox_messages: its position                      *)
(***************************************************************************)
VARIABLES benabled, outbox, handed, routed, ppc, prow, inboxQueue, removed,
          fetched, workingMemory, contacted, bpc

bridgeVars == <<benabled, outbox, handed, routed, ppc, prow, inboxQueue,
                removed, fetched, workingMemory, contacted, bpc>>

\* clone_instance: its position, whether the target name is valid, whether
\* the source is registered, whether the PostgreSQL client tools are
\* installed, how pg_dump and pg_restore end, whether the target database
\* exists, whether this call created it, whether the target is registered,
\* and how the call ended
VARIABLES cpc, cname, csource, ctools, cdump, crestore, cdb, ccreated,
          cregistered, cresult

cloneVars == <<cpc, cname, csource, ctools, cdump, crestore, cdb, ccreated,
               cregistered, cresult>>

\* one belief under deliberate transformation: its content, its
\* transformation_state (active_exploration, reflection_count, whether the
\* recorded evidence reaches evidence_threshold, whether the stability
\* threshold is cleared), the heartbeats since the exploration began, the
\* configured min_reflections and min_heartbeats, the result of the last
\* attempt, and whether an attempt has failed
VARIABLES xcontent, xactive, xcount, xevidence, xcleared, xbeats, xminR,
          xminH, xlast, xfailed

transformVars == <<xcontent, xactive, xcount, xevidence, xcleared, xbeats,
                   xminR, xminH, xlast, xfailed>>

\* the apply_heartbeat_decision calls one execute_heartbeat_decision has
\* issued
VARIABLES applyCalls

loopVars == <<applyCalls>>

\* the stored tools configuration (config key 'tools'): whether enabled is
\* null, the enabled list when it is not, the disabled list, the disabled
\* categories
VARIABLES cfgEnabledNone, cfgEnabled, cfgDisabled, cfgDisabledCategories

cfgVars == <<cfgEnabledNone, cfgEnabled, cfgDisabled, cfgDisabledCategories>>

\* an InstanceRegistry object (_data["instances"], _data["current"], 0 for
\* null), the instances.json file it saves to, and the last operation made
\* on it
VARIABLES rinstances, rcurrent, rfileInstances, rfileCurrent, rlast

regVars == <<rinstances, rcurrent, rfileInstances, rfileCurrent, rlast>>

\* the parts of the program around the control plane
peripheryVars ==
    <<bridgeVars, cloneVars, transformVars, loopVars, cfgVars, regVars>>

coreVars == <<brokerVars, queueVars, hbVars, deleteVars, consentVars, cliVars,
             toolVars, batchVars, workerVars, thinkVars>>

vars == <<coreVars, peripheryVars>>

outsideBroker ==
    <<queueVars, hbVars, deleteVars, consentVars, cliVars, toolVars,
      batchVars, workerVars, thinkVars,
      peripheryVars>>

outsideQueue ==
    <<ops, hbVars, deleteVars, consentVars, cliVars, toolVars, batchVars,
      workerVars, thinkVars,
      peripheryVars>>

outsideHeartbeat ==
    <<brokerVars, queueVars, deleteVars, consentVars, cliVars, toolVars,
      batchVars, workerVars, thinkVars,
      peripheryVars>>

outsideDelete ==
    <<brokerVars, queueVars, hbVars, consentVars, toolVars, batchVars,
      workerVars, thinkVars,
      peripheryVars>>

outsideConsent ==
    <<brokerVars, queueVars, hbVars, deleteVars, cliVars, toolVars,
      batchVars, workerVars, thinkVars,
      peripheryVars>>

outsideTools ==
    <<brokerVars, queueVars, hbVars, deleteVars, consentVars, cliVars,
      batchVars, workerVars, thinkVars,
      peripheryVars>>

outsideBatch ==
    <<brokerVars, queueVars, hbVars, deleteVars, consentVars, cliVars,
      toolVars, workerVars, thinkVars,
      peripheryVars>>

outsideMaintenance ==
    <<brokerVars, queueVars, hbVars, deleteVars, consentVars, cliVars,
      toolVars, batchVars, thinkVars,
      peripheryVars>>

outsideThink ==
    <<brokerVars, queueVars, hbVars, deleteVars, consentVars, cliVars,
      toolVars, batchVars, workerVars,
      peripheryVars>>

outsideBridge == <<coreVars, cloneVars, transformVars, loopVars, cfgVars, regVars>>

outsideClone == <<coreVars, bridgeVars, transformVars, loopVars, cfgVars, regVars>>

outsideTransform == <<coreVars, bridgeVars, cloneVars, loopVars, cfgVars, regVars>>

outsideLoop ==
    <<brokerVars, queueVars, deleteVars, consentVars, cliVars, toolVars,
      batchVars, workerVars, thinkVars, bridgeVars, cloneVars, transformVars,
      cfgVars, regVars>>

outsideToolsConfig == <<coreVars, bridgeVars, cloneVars, transformVars, loopVars, regVars>>

outsideRegistry == <<coreVars, bridgeVars, cloneVars, transformVars, loopVars, cfgVars>>

NewRow == [status |-> "pending", retry_count |-> 0, started |-> FALSE,
           completed |-> FALSE, output |-> 0, error |-> 0]

InitBroker ==
    /\ calls = [id \in CallIds |-> NewRow]
    /\ effects = [id \in CallIds |-> 0]
    /\ rowLock = [id \in CallIds |-> 0]
    /\ pc = [w \in Clients |-> "idle"]
    /\ target = [w \in Clients |-> 0]
    /\ handedOut = [id \in CallIds |-> 0]
    /\ ops = 0

(***************************************************************************)
(* claim_pending_call: the UPDATE's subquery                               *)
(*   SELECT id FROM external_calls WHERE status = 'pending'                *)
(*   ORDER BY requested_at FOR UPDATE SKIP LOCKED LIMIT 1                  *)
(* sees the pending rows that no other statement has locked.               *)
(***************************************************************************)
ClaimableNoSkip == {id \in CallIds : calls[id].status = "pending"}

Claimable == {id \in CallIds : calls[id].status = "pending" /\ rowLock[id] = 0}

(* ORDER BY requested_at DESC *)
Newest(S) == CHOOSE id \in S : \A other \in S : id >= other

(* ORDER BY requested_at ... LIMIT 1 *)
Oldest(S) == CHOOSE id \in S : \A other \in S : id <= other

Bump(n) == IF n < 2 THEN n + 1 ELSE n

(* SET status = 'processing', started_at = CURRENT_TIMESTAMP *)
ClaimedRow(row) == [row EXCEPT !.status = "processing", !.started = TRUE]

(* The subquery of claim_pending_call locks the oldest claimable row; with *)
(* no such row the statement updates nothing and the claim returns None.   *)
ClaimPendingLock(w) ==
    /\ pc[w] = "idle"
    /\ IF Claimable = {}
       THEN UNCHANGED tableVars
       ELSE /\ rowLock' = [rowLock EXCEPT ![Oldest(Claimable)] = w]
            /\ target' = [target EXCEPT ![w] = Oldest(Claimable)]
            /\ pc' = [pc EXCEPT ![w] = "claim_pending"]
            /\ UNCHANGED <<calls, effects, handedOut>>

(* The UPDATE of claim_pending_call writes the locked row and commits.     *)
ClaimPendingCommit(w) ==
    /\ pc[w] = "claim_pending"
    /\ calls' = [calls EXCEPT ![target[w]] = ClaimedRow(@)]
    /\ rowLock' = [rowLock EXCEPT ![target[w]] = 0]
    /\ handedOut' = [handedOut EXCEPT ![target[w]] = Bump(@)]
    /\ pc' = [pc EXCEPT ![w] = "idle"]
    /\ target' = [target EXCEPT ![w] = 0]
    /\ UNCHANGED effects

(***************************************************************************)
(* claim_call_by_id: UPDATE ... WHERE id = $1 AND status = 'pending'.      *)
(* The statement waits for a lock another statement holds on the row and   *)
(* then evaluates its WHERE clause on the committed row.                   *)
(***************************************************************************)
ByIdMatches(id) == calls[id].status = "pending"

ClaimByIdLock(w, id) ==
    /\ pc[w] = "idle"
    /\ rowLock[id] = 0
    /\ IF ByIdMatches(id)
       THEN /\ rowLock' = [rowLock EXCEPT ![id] = w]
            /\ target' = [target EXCEPT ![w] = id]
            /\ pc' = [pc EXCEPT ![w] = "claim_by_id"]
            /\ UNCHANGED <<calls, effects, handedOut>>
       ELSE UNCHANGED tableVars

ClaimByIdCommit(w) ==
    /\ pc[w] = "claim_by_id"
    /\ calls' = [calls EXCEPT ![target[w]] = ClaimedRow(@)]
    /\ rowLock' = [rowLock EXCEPT ![target[w]] = 0]
    /\ handedOut' = [handedOut EXCEPT ![target[w]] = Bump(@)]
    /\ pc' = [pc EXCEPT ![w] = "idle"]
    /\ target' = [target EXCEPT ![w] = 0]
    /\ UNCHANGED effects

(***************************************************************************)
(* The store's apply_external_call_result(call_id, output): in one         *)
(* transaction it moves a processing call to complete, writes its output   *)
(* and commits the call's domain side effect; a call that is not           *)
(* processing is left alone.                                               *)
(***************************************************************************)
StoreApplyRow(row, output) ==
    IF row.status = "processing"
    THEN [row EXCEPT !.status = "complete", !.output = output, !.completed = TRUE]
    ELSE row

StoreApplyEffects(row, n) == IF row.status = "processing" THEN Bump(n) ELSE n

(* The UPDATE in apply_result's except branch:                             *)
(* SET status = 'complete', output = $1, completed_at = CURRENT_TIMESTAMP  *)
FallbackRow(row, output) ==
    [row EXCEPT !.status = "complete", !.output = output, !.completed = TRUE]

(***************************************************************************)
(* apply_result(conn, call_id, output).  outcome says how the database     *)
(* answered: "applied" the stored procedure returned, "fallback" it raised *)
(* and the except branch's UPDATE ran, "raised" that UPDATE raised too.    *)
(***************************************************************************)
ApplyResult(id, output, outcome) ==
    /\ rowLock[id] = 0
    /\ calls' = [calls EXCEPT ![id] =
                   CASE outcome = "applied" -> StoreApplyRow(@, output)
                     [] outcome = "fallback" -> FallbackRow(@, output)
                     [] OTHER -> @]
    /\ effects' = [effects EXCEPT ![id] =
                   IF outcome = "applied" THEN StoreApplyEffects(calls[id], @) ELSE @]
    /\ UNCHANGED <<rowLock, pc, target, handedOut>>

(***************************************************************************)
(* fail_call(conn, call_id, error, max_retries=, retry=)                   *)
(***************************************************************************)
(* retry: status = CASE WHEN retry_count < $1 THEN 'pending' ELSE 'failed' *)
(*        END, error_message = $2, retry_count = retry_count + 1,          *)
(*        started_at = NULL                                                *)
RetryStatusLe(row, max_retries) ==
    IF row.retry_count <= max_retries THEN "pending" ELSE "failed"

RetryStatus(row, max_retries) ==
    IF row.retry_count < max_retries THEN "pending" ELSE "failed"

FailRetryRow(row, max_retries) ==
    [row EXCEPT !.status = RetryStatus(row, max_retries), !.error = 1,
                !.retry_count = @ + 1, !.started = FALSE]

(* no retry: status = 'failed', error_message = $1,                        *)
(*           completed_at = CURRENT_TIMESTAMP                              *)
FailFinalRow(row) ==
    [row EXCEPT !.status = "failed", !.error = 1, !.completed = TRUE]

FailCallRow(row, max_retries, retry) ==
    IF retry THEN FailRetryRow(row, max_retries) ELSE FailFinalRow(row)

FailCall(id, max_retries, retry) ==
    /\ rowLock[id] = 0
    /\ calls' = [calls EXCEPT ![id] = FailCallRow(@, max_retries, retry)]
    /\ handedOut' = [handedOut EXCEPT ![id] =
                       IF calls'[id].status = "pending" THEN 0 ELSE @]
    /\ UNCHANGED <<effects, rowLock, pc, target>>

ApplyOutcomes == {"applied", "fallback", "raised"}

(***************************************************************************)
(* The queue workers are not running.                                      *)
(***************************************************************************)
InitQueueIdle ==
    /\ callType = [id \in CallIds |-> "think"]
    /\ wpc = [w \in Clients |-> "idle"]
    /\ wcall = [w \in Clients |-> 0]
    /\ completions = [id \in CallIds |-> 0]
    /\ faults = 0

NoBatch == [pending |-> FALSE, kind |-> "none", next_index |-> 0,
            completed |-> FALSE, terminated |-> FALSE]

(***************************************************************************)
(* The heartbeat worker has not been started.                              *)
(***************************************************************************)
InitHeartbeatIdle ==
    /\ consentValid = TRUE
    /\ running = FALSE
    /\ connected = FALSE
    /\ hpc = "init"
    /\ agentTerminated = FALSE
    /\ hbOutcome = "none"
    /\ decision = <<>>
    /\ start_index = 0
    /\ batch = NoBatch
    /\ prevStart = 0
    /\ lastService = "none"
    /\ llmIssued = FALSE
    /\ toolIssued = FALSE

NumInstances == 2

Names == 1..NumInstances

(***************************************************************************)
(* No instance is registered and no delete_instance call is in progress.   *)
(***************************************************************************)
InitDeleteIdle ==
    /\ registry = {}
    /\ current = 0
    /\ databases = {}
    /\ terminated = [n \in Names |-> FALSE]
    /\ configured = [n \in Names |-> FALSE]
    /\ dpc = "idle"
    /\ dname = 0
    /\ dforce = FALSE
    /\ dperm = TRUE
    /\ exempt = FALSE
    /\ review = "none"
    /\ reviewRaw = "none"
    /\ written = {}
    /\ terminatedOn = "none"
    /\ dresult = "none"
    /\ viaCli = FALSE
    /\ cliForce = FALSE

\* None, for an int | None
NoValue == -1

Contexts == {"heartbeat", "chat", "mcp"}

\* ToolSpec defaults, ToolsConfig(), no boundary, no approval
DefaultCall ==
    [spec |-> [energy_cost |-> 1, requires_approval |-> FALSE,
               allowed_contexts |-> Contexts],
     context |-> "chat",
     energy_available |-> NoValue,
     config |-> [in_disabled |-> FALSE, category_disabled |-> FALSE,
                 enabled_list |-> "none", ctx_override |-> "plain",
                 cost |-> NoValue, max_energy_per_tool |-> NoValue],
     boundary |-> [restricts |-> "none", content |-> "none"],
     approved |-> FALSE]

NoResult ==
    [done |-> FALSE, success |-> FALSE, error_type |-> "none",
     energy_spent |-> 0, handler_ran |-> FALSE, evaluated |-> <<>>]

(***************************************************************************)
(* No tool is being executed.                                              *)
(***************************************************************************)
InitToolsIdle ==
    /\ tcall = DefaultCall
    /\ tresult = NoResult
    /\ tlisted = "unasked"

(***************************************************************************)
(* No batch of tool calls is being executed.                               *)
(***************************************************************************)
InitBatchIdle ==
    /\ bcalls = <<>>
    /\ bparallel = FALSE
    /\ bcontext = [tool_context |-> "heartbeat", energy_available |-> NoValue]
    /\ bstart = NoValue
    /\ bruns = <<>>

(***************************************************************************)
(* The maintenance worker has not been started.                            *)
(***************************************************************************)
InitMaintenanceIdle ==
    /\ mrunning = FALSE
    /\ mconnected = FALSE
    /\ mpc = "init"

(***************************************************************************)
(* No think call is being serviced.                                        *)
(***************************************************************************)
InitThinkIdle ==
    /\ tkind = "heartbeat_decision"
    /\ tsite = "heartbeat_start"
    /\ tllm = "none"
    /\ traw = "none"
    /\ tdoc = "none"
    /\ tapplied = "none"
    /\ tproceeds = FALSE
    /\ tpc = "idle"

\* outbox rows and inbox messages, by the order they were written
MaxMsgs == 2

MsgIds == 1..MaxMsgs

\* the bridge before any message: no outbox row, empty queues
InitBridgeIdle ==
    /\ benabled = TRUE
    /\ outbox = [i \in MsgIds |-> "absent"]
    /\ handed = {}
    /\ routed = {}
    /\ ppc = "idle"
    /\ prow = 0
    /\ inboxQueue = <<>>
    /\ removed = {}
    /\ fetched = <<>>
    /\ workingMemory = {}
    /\ contacted = {}
    /\ bpc = "idle"

InitCloneIdle ==
    /\ cpc = "start"
    /\ cname = "valid"
    /\ csource = TRUE
    /\ ctools = "present"
    /\ cdump = "ok"
    /\ crestore = "ok"
    /\ cdb = FALSE
    /\ ccreated = FALSE
    /\ cregistered = FALSE
    /\ cresult = "none"

InitTransformIdle ==
    /\ xcontent = "old"
    /\ xactive = FALSE
    /\ xcount = 0
    /\ xevidence = FALSE
    /\ xcleared = FALSE
    /\ xbeats = 0
    /\ xminR = 0
    /\ xminH = 0
    /\ xlast = "none"
    /\ xfailed = FALSE

InitLoopIdle == applyCalls = 0

\* ToolsConfig(): enabled = None, nothing disabled
InitToolsConfigIdle ==
    /\ cfgEnabledNone = TRUE
    /\ cfgEnabled = {}
    /\ cfgDisabled = {}
    /\ cfgDisabledCategories = {}

NoOperation == [op |-> "none", name |-> 0, raised |-> FALSE,
                was_current |-> FALSE]

\* no instances.json: {"version": 1, "current": None, "instances": {}}
InitRegistryIdle ==
    /\ rinstances = {}
    /\ rcurrent = 0
    /\ rfileInstances = {}
    /\ rfileCurrent = 0
    /\ rlast = NoOperation

InitPeripheryIdle ==
    /\ InitBridgeIdle
    /\ InitCloneIdle
    /\ InitTransformIdle
    /\ InitLoopIdle
    /\ InitToolsConfigIdle
    /\ InitRegistryIdle

(***************************************************************************)
(* The parts of the program modelled after the tool registry are idle.     *)
(***************************************************************************)
InitAfterToolsIdle ==
    InitBatchIdle /\ InitMaintenanceIdle /\ InitThinkIdle /\ InitPeripheryIdle

(***************************************************************************)
(* The consents directory is empty.                                        *)
(***************************************************************************)
InitConsentIdle ==
    /\ files = <<>>
    /\ now = 0
    /\ lastRevoked = {}

(***************************************************************************)
(* Spec: clients of the broker issue its operations in any order and with  *)
(* any arguments, at most MaxOps statements in a run.                      *)
(***************************************************************************)
Budget == ops < MaxOps /\ ops' = ops + 1

Init ==
    InitBroker /\ InitQueueIdle /\ InitHeartbeatIdle /\ InitDeleteIdle
      /\ InitConsentIdle /\ InitToolsIdle /\ InitAfterToolsIdle

Next ==
    \/ \E w \in Clients : Budget /\ ClaimPendingLock(w) /\ UNCHANGED outsideBroker
    \/ \E w \in Clients : Budget /\ ClaimPendingCommit(w) /\ UNCHANGED outsideBroker
    \/ \E w \in Clients, id \in CallIds : Budget /\ ClaimByIdLock(w, id) /\ UNCHANGED outsideBroker
    \/ \E w \in Clients : Budget /\ ClaimByIdCommit(w) /\ UNCHANGED outsideBroker
    \/ \E id \in CallIds, o \in Outputs, r \in ApplyOutcomes :
          Budget /\ ApplyResult(id, o, r) /\ UNCHANGED outsideBroker
    \/ \E id \in CallIds, m \in 0..MaxRetriesArg, retry \in BOOLEAN :
          Budget /\ FailCall(id, m, retry) /\ UNCHANGED outsideBroker

Spec == Init /\ [][Next]_vars

(***************************************************************************)
(* C1: under any interleaving of claim_pending_call and claim_call_by_id,  *)
(* a call is handed to at most one claimer: once a claim has returned it,  *)
(* no claim returns it again until fail_call has moved it back to pending. *)
(* handedOut[id] counts the claims that returned call id since it was last *)
(* made pending by fail_call.                                              *)
(***************************************************************************)
C1_AtMostOneClaimer == \A id \in CallIds : handedOut[id] <= 1

(* Call 1 was claimed first, and a second claimer was given call 2.        *)
C1_Witness ==
    /\ calls[1].status = "processing" /\ handedOut[1] = 1
    /\ calls[2].status = "processing" /\ handedOut[2] = 1

(***************************************************************************)
(* C3: no call is ever observed complete with its domain side effect       *)
(* missing.                                                                *)
(***************************************************************************)
C3_CompleteHasEffect ==
    \A id \in CallIds : calls[id].status = "complete" => effects[id] >= 1

(***************************************************************************)
(* C9: apply_result invoked on a call that an earlier apply_result has     *)
(* completed is a no-op: it applies no further side effect and leaves the  *)
(* call's status and output unchanged.                                     *)
(***************************************************************************)
C9_SecondApplyIsNoOp ==
    [][\A id \in CallIds, o \in Outputs, r \in ApplyOutcomes :
         (ApplyResult(id, o, r) /\ calls[id].status = "complete")
            => /\ calls'[id].status = calls[id].status
               /\ calls'[id].output = calls[id].output
               /\ effects'[id] = effects[id]]_vars

(***************************************************************************)
(* C35: complete and failed are terminal states of an external call: once  *)
(* a call is complete or failed, no apply_result or fail_call invocation   *)
(* changes its status, output or retry_count, so a finished call is never  *)
(* handed out for processing again.                                        *)
(***************************************************************************)
C35_FinishedCallsStayFinished ==
    [][\A id \in CallIds :
         calls[id].status \in {"complete", "failed"} =>
            /\ calls'[id].status = calls[id].status
            /\ calls'[id].output = calls[id].output
            /\ calls'[id].retry_count = calls[id].retry_count]_vars

(***************************************************************************)
(* C10: fail_call with retry true on a call whose retry_count is below     *)
(* max_retries returns the call to pending with retry_count incremented by *)
(* one and started_at cleared; in every other case the call becomes failed *)
(* with error_message set.                                                 *)
(***************************************************************************)
C10_FailCallOutcome ==
    [][\A id \in CallIds, m \in 0..MaxRetriesArg, retry \in BOOLEAN :
         FailCall(id, m, retry)
            => IF retry /\ calls[id].retry_count < m
               THEN /\ calls'[id].status = "pending"
                    /\ calls'[id].retry_count = calls[id].retry_count + 1
                    /\ ~calls'[id].started
               ELSE /\ calls'[id].status = "failed"
                    /\ calls'[id].error # 0]_vars

(* A claimed call was failed with retries left and is pending again, and   *)
(* another call was failed for good.                                       *)
C10_Witness ==
    \E id, other \in CallIds :
        /\ calls[id].status = "pending" /\ calls[id].retry_count = 1
        /\ ~calls[id].started /\ calls[id].error # 0
        /\ calls[other].status = "failed" /\ calls[other].error # 0

(***************************************************************************)
(* SpecQueue: NumClients workers service one queue of NumCalls pending     *)
(* external calls, each by calling process_pending_call again and again.   *)
(***************************************************************************)
MAX_RETRIES == 3

CallTypes == {"decision", "think", "embed"}

InitQueue ==
    /\ InitBroker
    /\ InitHeartbeatIdle
    /\ InitDeleteIdle
    /\ InitConsentIdle
    /\ InitToolsIdle
    /\ InitAfterToolsIdle
    /\ callType \in [CallIds -> CallTypes]
    /\ wpc = [w \in Clients |-> "idle"]
    /\ wcall = [w \in Clients |-> 0]
    /\ completions = [id \in CallIds |-> 0]
    /\ faults = 0

(* call = await call_processor.claim_pending_call(conn); if not call:      *)
(* return None                                                             *)
QClaimLock(w) ==
    /\ wpc[w] = "idle"
    /\ ClaimPendingLock(w)
    /\ wpc' = [wpc EXCEPT ![w] = IF Claimable = {} THEN "idle" ELSE "claiming"]
    /\ UNCHANGED <<callType, wcall, completions, faults>>

QClaimCommit(w) ==
    /\ wpc[w] = "claiming"
    /\ ClaimPendingCommit(w)
    /\ wcall' = [wcall EXCEPT ![w] = target[w]]
    /\ wpc' = [wpc EXCEPT ![w] = "process"]
    /\ UNCHANGED <<callType, completions, faults>>

(***************************************************************************)
(* process_call_payload(conn, call_type, call_input): 'embed' raises; a    *)
(* think call returns the parsed or the fallback document unless loading   *)
(* the LLM configuration or the chat completion raises, which is a fault   *)
(* of the environment.  A tool_use call and a call of an unsupported type  *)
(* always return a document: they behave as a think call without fault.    *)
(***************************************************************************)
PayloadOutcomes(type) ==
    CASE type = "embed" -> {"raise"}
      [] OTHER -> {"result", "fault"}

(* The document process_call_payload returned.                             *)
ResultDoc == 1

Fault(happens) ==
    IF happens THEN faults < MaxFaults /\ faults' = faults + 1 ELSE faults' = faults

(* heartbeat_id and result.get("kind") == "heartbeat_decision" and         *)
(* "decision" in result                                                    *)
IsHeartbeatDecision(type) == type = "decision"

QProcess(w, outcome) ==
    /\ wpc[w] = "process"
    /\ outcome \in PayloadOutcomes(callType[wcall[w]])
    /\ Fault(outcome = "fault")
    /\ wpc' = [wpc EXCEPT ![w] =
                 CASE outcome \in {"raise", "fault"} -> "fail"
                   [] IsHeartbeatDecision(callType[wcall[w]]) -> "apply_decision"
                   [] OTHER -> "apply"]
    /\ UNCHANGED <<tableVars, callType, wcall, completions>>

(* except Exception: await call_processor.fail_call(conn, call_id,         *)
(* str(exc)); return                                                       *)
QFail(w) ==
    /\ wpc[w] = "fail"
    /\ FailCall(wcall[w], MAX_RETRIES, TRUE)
    /\ wpc' = [wpc EXCEPT ![w] = "idle"]
    /\ wcall' = [wcall EXCEPT ![w] = 0]
    /\ UNCHANGED <<callType, completions, faults>>

(***************************************************************************)
(* ExternalCallProcessor.apply_result: the store's                         *)
(* apply_external_call_result, which either commits or raises; when it     *)
(* raises, process_pending_call raises and the call stays as it is.        *)
(***************************************************************************)
ProcessorApply(id, output, raises) ==
    /\ rowLock[id] = 0
    /\ calls' = [calls EXCEPT ![id] = IF raises THEN @ ELSE StoreApplyRow(@, output)]
    /\ effects' = [effects EXCEPT ![id] =
                     IF raises THEN @ ELSE StoreApplyEffects(calls[id], @)]
    /\ completions' = [completions EXCEPT ![id] =
                         IF calls'[id].status = "complete" /\ calls[id].status # "complete"
                         THEN Bump(@) ELSE @]
    /\ UNCHANGED <<rowLock, pc, target, handedOut>>

(* await call_processor.apply_result(conn, call_id, result); return        *)
QApply(w, raises) ==
    /\ wpc[w] = "apply"
    /\ Fault(raises)
    /\ ProcessorApply(wcall[w], ResultDoc, raises)
    /\ wpc' = [wpc EXCEPT ![w] = "idle"]
    /\ wcall' = [wcall EXCEPT ![w] = 0]
    /\ UNCHANGED callType

(* The heartbeat decision branch: apply_result, then                       *)
(* execute_heartbeat_decision.                                             *)
QApplyDecision(w, raises) ==
    /\ wpc[w] = "apply_decision"
    /\ Fault(raises)
    /\ ProcessorApply(wcall[w], ResultDoc, raises)
    /\ wpc' = [wpc EXCEPT ![w] = IF raises THEN "idle" ELSE "execute"]
    /\ wcall' = [wcall EXCEPT ![w] = IF raises THEN 0 ELSE @]
    /\ UNCHANGED callType

(* execute_heartbeat_decision returns or raises (the except branch returns *)
(* the error); the decision loop itself is the subject of SpecHeartbeat.   *)
QExecute(w) ==
    /\ wpc[w] = "execute"
    /\ wpc' = [wpc EXCEPT ![w] = "idle"]
    /\ wcall' = [wcall EXCEPT ![w] = 0]
    /\ UNCHANGED <<tableVars, callType, completions, faults>>

NextQueue ==
    \/ \E w \in Clients : QClaimLock(w) /\ UNCHANGED outsideQueue
    \/ \E w \in Clients : QClaimCommit(w) /\ UNCHANGED outsideQueue
    \/ \E w \in Clients, r \in {"result", "raise", "fault"} :
          QProcess(w, r) /\ UNCHANGED outsideQueue
    \/ \E w \in Clients : QFail(w) /\ UNCHANGED outsideQueue
    \/ \E w \in Clients, r \in BOOLEAN : QApply(w, r) /\ UNCHANGED outsideQueue
    \/ \E w \in Clients, r \in BOOLEAN : QApplyDecision(w, r) /\ UNCHANGED outsideQueue
    \/ \E w \in Clients : QExecute(w) /\ UNCHANGED outsideQueue

SpecQueue == InitQueue /\ [][NextQueue]_vars

(* The workers a call is with: they hold it between claim and return.      *)
Holders(id) == {w \in Clients : wcall[w] = id}

(* The queue is drained: no worker is inside process_pending_call and      *)
(* every call has reached complete or failed.                              *)
Drained ==
    /\ \A w \in Clients : wpc[w] = "idle"
    /\ \A id \in CallIds : calls[id].status \in {"complete", "failed"}

MaxActions == 3

ActionKinds == {"rest", "think", "tool_use", "terminate"}

Decisions == UNION {[1..n -> ActionKinds] : n \in 0..MaxActions}

\* the fallback decision _process_heartbeat_decision_call hands to chat_json
FallbackDecision == <<"rest">>

\* JSON values the model may put under "confirm": the booleans, nothing, a
\* non-boolean Python takes for true ("yes", "false", 1), and a non-boolean
\* Python takes for false (0, "", null)
ConfirmValues == {"true", "false", "missing", "truthy", "falsy"}

\* bool(doc.get("confirm"))
PyBool(v) == v \in {"true", "truthy"}

InitHeartbeat ==
    /\ InitBroker
    /\ InitQueueIdle
    /\ InitDeleteIdle
    /\ InitConsentIdle
    /\ InitToolsIdle
    /\ InitAfterToolsIdle
    /\ consentValid \in BOOLEAN
    /\ running = FALSE
    /\ connected = FALSE
    /\ hpc = "init"
    /\ agentTerminated = FALSE
    /\ hbOutcome = "none"
    /\ decision = <<>>
    /\ start_index = 0
    /\ batch = NoBatch
    /\ prevStart = 0
    /\ lastService = "none"
    /\ llmIssued = FALSE
    /\ toolIssued = FALSE

\* HeartbeatWorker.run up to the loop: running = True, connect()
HRun ==
    /\ hpc = "init"
    /\ running' = TRUE
    /\ connected' = TRUE
    /\ hpc' = "loop"
    /\ UNCHANGED <<consentValid, agentTerminated, hbOutcome, decision,
                   start_index, batch, prevStart, lastService, llmIssued,
                   toolIssued>>

\* a loop test that does not look at self.running
HLoopIgnoringStop ==
    /\ hpc = "loop"
    /\ hpc' = "check_terminated"
    /\ UNCHANGED <<consentValid, running, connected, agentTerminated,
                   hbOutcome, decision, start_index, batch, prevStart,
                   lastService, llmIssued, toolIssued>>

\* `while self.running`, then the finally clause
HLoop ==
    /\ hpc = "loop"
    /\ IF running
         THEN hpc' = "check_terminated" /\ UNCHANGED connected
         ELSE hpc' = "exited" /\ connected' = FALSE
    /\ UNCHANGED <<consentValid, running, agentTerminated, hbOutcome,
                   decision, start_index, batch, prevStart, lastService,
                   llmIssued, toolIssued>>

\* _is_agent_terminated: the store's answer, or False when the query raises
HCheckTerminated(raises) ==
    /\ hpc = "check_terminated"
    /\ IF agentTerminated /\ ~raises
         THEN hpc' = "exited" /\ connected' = FALSE
         ELSE hpc' = "run_heartbeat" /\ UNCHANGED connected
    /\ UNCHANGED <<consentValid, running, agentTerminated, hbOutcome,
                   decision, start_index, batch, prevStart, lastService,
                   llmIssued, toolIssued>>

\* run_heartbeat(): nothing when no heartbeat is due, else the payload of a
\* started heartbeat with its heartbeat_decision call
HRunHeartbeat(due) ==
    /\ hpc = "run_heartbeat"
    /\ IF due
         THEN /\ hpc' = "initial_call"
              /\ hbOutcome' = "running"
         ELSE /\ hpc' = "sleep"
              /\ UNCHANGED hbOutcome
    /\ decision' = <<>>
    /\ start_index' = 0
    /\ batch' = NoBatch
    /\ prevStart' = 0
    /\ lastService' = "none"
    /\ UNCHANGED <<consentValid, running, connected, agentTerminated,
                   llmIssued, toolIssued>>

\* outcomes of the heartbeat_decision call and of applying its result
InitialOutcomes == {"decided", "unparseable", "llm_raises", "apply_raises"}

\* the loop body of _run_heartbeat_if_due for the heartbeat_decision call:
\* process_call_payload, apply_result, then execute_heartbeat_decision
\* starts at start_index 0
HInitialCall(outcome, d) ==
    /\ hpc = "initial_call"
    /\ llmIssued' = TRUE
    /\ IF outcome \in {"llm_raises", "apply_raises"}
         THEN /\ hpc' = "sleep"
              /\ UNCHANGED decision
         ELSE /\ hpc' = "apply_decision"
              /\ decision' = IF outcome = "decided" THEN d
                             ELSE FallbackDecision
    /\ start_index' = 0
    /\ UNCHANGED <<consentValid, running, connected, agentTerminated,
                   hbOutcome, batch, prevStart, lastService, toolIssued>>

\* positions of d after start that need an external call
CallPositions(d, start) ==
    {j \in 1..Len(d) : j > start /\ d[j] # "rest"}

\* the store's apply_heartbeat_decision(hb, decision, start_index)
StoreApplyDecision(d, start, isTerminated) ==
    IF isTerminated
      THEN [NoBatch EXCEPT !.terminated = TRUE]
      ELSE IF CallPositions(d, start) # {}
        THEN LET j == CHOOSE k \in CallPositions(d, start) :
                        \A m \in CallPositions(d, start) : k <= m
             IN  [NoBatch EXCEPT !.pending = TRUE, !.kind = d[j],
                                 !.next_index = j]
        ELSE [NoBatch EXCEPT !.completed = TRUE]

\* what the apply_heartbeat_decision query gives the runner: the store's
\* batch, a value _coerce_json turns into {}, or an exception
DecisionQueryOutcomes == {"returned", "unreadable", "raises"}

\* one turn of execute_heartbeat_decision's loop up to the pending call
HApplyDecision(outcome) ==
    /\ hpc = "apply_decision"
    /\ prevStart' = start_index
    /\ IF outcome = "raises"
         THEN /\ hpc' = "sleep"
              /\ UNCHANGED <<batch, running, hbOutcome>>
         ELSE LET b == IF outcome = "unreadable" THEN NoBatch
                       ELSE StoreApplyDecision(decision, start_index,
                                               agentTerminated)
              IN  /\ batch' = b
                  /\ IF b.terminated
                       THEN /\ hpc' = "sleep"
                            /\ running' = FALSE
                            /\ hbOutcome' = "terminated"
                       ELSE IF b.pending
                         THEN /\ hpc' = "service_call"
                              /\ UNCHANGED <<running, hbOutcome>>
                         ELSE /\ hpc' = "sleep"
                              /\ hbOutcome' = IF b.completed THEN "finalized"
                                              ELSE hbOutcome
                              /\ UNCHANGED running
    /\ UNCHANGED <<consentValid, connected, agentTerminated, decision,
                   start_index, lastService, llmIssued, toolIssued>>

\* start_index for the next turn, from batch.get("next_index")
NextStartIndexBehind(next_index) ==
    IF next_index \in Int THEN next_index - 2 ELSE 0

NextStartIndex(next_index) ==
    IF next_index \in Int THEN next_index ELSE 0

ServiceOutcomes == {"ok", "process_raises", "apply_raises"}

\* the applied result says the agent was terminated (_termination_applied)
TerminationApplied(kind, outcome, confirm) ==
    kind = "terminate" /\ outcome = "ok" /\ PyBool(confirm)

\* servicing the pending call: process_call_payload, apply_result, and the
\* statements after the try block
HServiceCall(outcome, confirm) ==
    /\ hpc = "service_call"
    /\ batch.kind = "tool_use" => outcome # "process_raises"
    /\ batch.kind # "terminate" => confirm = "missing"
    /\ llmIssued' = (llmIssued \/ batch.kind \in {"think", "terminate"})
    /\ toolIssued' = (toolIssued \/ batch.kind = "tool_use")
    /\ lastService' = IF outcome = "ok" THEN "ok" ELSE "failed"
    /\ IF TerminationApplied(batch.kind, outcome, confirm)
         THEN /\ agentTerminated' = TRUE
              /\ hbOutcome' = "terminated"
              /\ running' = FALSE
              /\ hpc' = "sleep"
              /\ UNCHANGED start_index
         ELSE /\ start_index' = NextStartIndex(batch.next_index)
              /\ hpc' = "apply_decision"
              /\ UNCHANGED <<agentTerminated, hbOutcome, running>>
    /\ UNCHANGED <<consentValid, connected, decision, batch, prevStart>>

\* asyncio.sleep(POLL_INTERVAL)
HSleep ==
    /\ hpc = "sleep"
    /\ hpc' = "loop"
    /\ UNCHANGED <<consentValid, running, connected, agentTerminated,
                   hbOutcome, decision, start_index, batch, prevStart,
                   lastService, llmIssued, toolIssued>>

\* the signal handler's shutdown(): stop()
HStop ==
    /\ running
    /\ running' = FALSE
    /\ UNCHANGED <<consentValid, connected, hpc, agentTerminated, hbOutcome,
                   decision, start_index, batch, prevStart, lastService,
                   llmIssued, toolIssued>>

NextHeartbeat ==
    \/ HRun /\ UNCHANGED outsideHeartbeat
    \/ HLoop /\ UNCHANGED outsideHeartbeat
    \/ \E raises \in BOOLEAN :
         HCheckTerminated(raises) /\ UNCHANGED outsideHeartbeat
    \/ \E due \in BOOLEAN :
         HRunHeartbeat(due) /\ UNCHANGED outsideHeartbeat
    \/ \E outcome \in InitialOutcomes, d \in Decisions :
         HInitialCall(outcome, d) /\ UNCHANGED outsideHeartbeat
    \/ \E outcome \in DecisionQueryOutcomes :
         HApplyDecision(outcome) /\ UNCHANGED outsideHeartbeat
    \/ \E outcome \in ServiceOutcomes, confirm \in ConfirmValues :
         HServiceCall(outcome, confirm) /\ UNCHANGED outsideHeartbeat
    \/ HSleep /\ UNCHANGED outsideHeartbeat
    \/ HStop /\ UNCHANGED outsideHeartbeat

SpecHeartbeat == InitHeartbeat /\ [][NextHeartbeat]_vars

\* execute_heartbeat_decision is between two turns of its loop
InDecisionLoop == hpc \in {"apply_decision", "service_call"}

\* C6: a heartbeat worker started without valid consent for its configured
\* model issues no LLM call and no tool call.
C6_NoCallWithoutConsent ==
    ~consentValid => ~llmIssued /\ ~toolIssued

\* C7: execute_heartbeat_decision moves on to next_index only after the
\* pending call of the previous turn was processed and applied successfully.
C7_AdvanceOnlyAfterApply ==
    (hpc = "apply_decision" /\ lastService # "none") => lastService = "ok"

InitDelete ==
    /\ InitBroker
    /\ InitQueueIdle
    /\ InitHeartbeatIdle
    /\ InitConsentIdle
    /\ InitToolsIdle
    /\ InitAfterToolsIdle
    /\ registry \in SUBSET Names
    /\ databases = registry
    /\ current \in {0} \cup registry
    /\ terminated \in [Names -> BOOLEAN]
    /\ configured \in [Names -> BOOLEAN]
    /\ dpc = "idle"
    /\ dname = 0
    /\ dforce = FALSE
    /\ dperm = TRUE
    /\ exempt = FALSE
    /\ review = "none"
    /\ reviewRaw = "none"
    /\ written = {}
    /\ terminatedOn = "none"
    /\ dresult = "none"
    /\ viaCli = FALSE
    /\ cliForce = FALSE

\* delete_instance up to `if require_permission`: registry.get(name)
DeleteBegin(name, force, require_permission) ==
    /\ dpc = "idle"
    /\ dname' = name
    /\ dforce' = force
    /\ dperm' = require_permission
    /\ exempt' = FALSE
    /\ review' = "none"
    /\ reviewRaw' = "none"
    /\ written' = {}
    /\ IF name \notin registry
         THEN dpc' = "idle" /\ dresult' = "not_found"
         ELSE /\ dpc' = IF require_permission THEN "connect" ELSE "drop"
              /\ dresult' = "none"
    /\ UNCHANGED <<registry, current, databases, terminated, configured,
                   terminatedOn>>

\* asyncpg.connect and the two gate queries
DeleteCheck(raises) ==
    /\ dpc = "connect"
    /\ IF raises
         THEN /\ dpc' = "idle"
              /\ dresult' = "error"
              /\ UNCHANGED exempt
         ELSE /\ exempt' = (terminated[dname] \/ ~configured[dname])
              /\ dpc' = IF ~terminated[dname] /\ configured[dname]
                        THEN "review" ELSE "drop"
              /\ UNCHANGED dresult
    /\ UNCHANGED <<registry, current, databases, terminated, configured,
                   dname, dforce, dperm, review, reviewRaw, written,
                   terminatedOn>>

\* what the review request can come back with: a document with some value
\* under "confirm", text that parses to no document, or a failed LLM call
ReviewOutcomes == ConfirmValues \cup {"unparseable", "llm_error"}

\* confirm of the review _request_termination_review returns, or of the
\* refusal delete_instance builds when the request raised
ReviewConfirm(outcome) ==
    IF outcome \in ConfirmValues THEN PyBool(outcome) ELSE FALSE

\* _request_termination_review inside delete_instance's try/except
DeleteReview(outcome) ==
    /\ dpc = "review"
    /\ reviewRaw' = outcome
    /\ review' = IF ReviewConfirm(outcome) THEN "confirm" ELSE "refuse"
    /\ IF outcome = "llm_error" /\ ~dforce
         THEN dpc' = "idle" /\ dresult' = "refused"
         ELSE dpc' = "record" /\ UNCHANGED dresult
    /\ UNCHANGED <<registry, current, databases, terminated, configured,
                   dname, dforce, dperm, exempt, written, terminatedOn>>

\* _record_termination_review and _write_termination_record, each of which
\* swallows its own failure, then the branch on review.get("confirm")
DeleteRecord(stateOk, fileOk) ==
    /\ dpc = "record"
    /\ written' = (IF stateOk THEN {"state"} ELSE {})
                    \cup (IF fileOk THEN {"file"} ELSE {})
    /\ IF review = "confirm"
         THEN dpc' = "terminate" /\ UNCHANGED dresult
         ELSE IF dforce
           THEN dpc' = "drop" /\ UNCHANGED dresult
           ELSE dpc' = "idle" /\ dresult' = "refused"
    /\ UNCHANGED <<registry, current, databases, terminated, configured,
                   dname, dforce, dperm, exempt, review, reviewRaw,
                   terminatedOn>>

\* SELECT terminate_agent(last_will, farewells, {})
DeleteTerminate(raises) ==
    /\ dpc = "terminate"
    /\ IF raises
         THEN /\ dpc' = "idle"
              /\ dresult' = "error"
              /\ UNCHANGED <<terminated, terminatedOn>>
         ELSE /\ terminated' = [terminated EXCEPT ![dname] = TRUE]
              /\ terminatedOn' = reviewRaw
              /\ dpc' = "drop"
              /\ UNCHANGED dresult
    /\ UNCHANGED <<registry, current, databases, configured, dname, dforce,
                   dperm, exempt, review, reviewRaw, written>>

\* drop_database(config.database, admin_dsn)
DeleteDrop(raises) ==
    /\ dpc = "drop"
    /\ IF raises
         THEN /\ dpc' = "idle"
              /\ dresult' = "error"
              /\ UNCHANGED databases
         ELSE /\ databases' = databases \ {dname}
              /\ dpc' = "unregister"
              /\ UNCHANGED dresult
    /\ UNCHANGED <<registry, current, terminated, configured, dname, dforce,
                   dperm, exempt, review, reviewRaw, written, terminatedOn>>

\* registry.remove(name)
DeleteUnregister ==
    /\ dpc = "unregister"
    /\ registry' = registry \ {dname}
    /\ current' = IF current = dname THEN 0 ELSE current
    /\ dpc' = "idle"
    /\ dresult' = "deleted"
    /\ UNCHANGED <<databases, terminated, configured, dname, dforce, dperm,
                   exempt, review, reviewRaw, written, terminatedOn>>

\* delete_instance called through the API
ApiDelete(name, force, require_permission) ==
    /\ DeleteBegin(name, force, require_permission)
    /\ viaCli' = FALSE
    /\ cliForce' = FALSE

\* _instance_delete: without --force the name must be typed to go on; then
\* delete_instance(name) is called
InstanceDelete(name, force, typedName) ==
    /\ dpc = "idle"
    /\ viaCli' = TRUE
    /\ cliForce' = force
    /\ IF ~force /\ ~typedName
         THEN /\ dresult' = "aborted"
              /\ dname' = name
              /\ UNCHANGED <<registry, current, databases, terminated,
                             configured, dpc, dforce, dperm, exempt, review,
                             reviewRaw, written, terminatedOn>>
         ELSE DeleteBegin(name, FALSE, TRUE)

NextDelete ==
    \/ \E name \in Names, force \in BOOLEAN, require_permission \in BOOLEAN :
         ApiDelete(name, force, require_permission)
           /\ UNCHANGED outsideDelete
    \/ \E name \in Names, force \in BOOLEAN, typedName \in BOOLEAN :
         InstanceDelete(name, force, typedName) /\ UNCHANGED outsideDelete
    \/ \E raises \in BOOLEAN :
         DeleteCheck(raises) /\ UNCHANGED <<outsideDelete, cliVars>>
    \/ \E outcome \in ReviewOutcomes :
         DeleteReview(outcome) /\ UNCHANGED <<outsideDelete, cliVars>>
    \/ \E stateOk \in BOOLEAN, fileOk \in BOOLEAN :
         DeleteRecord(stateOk, fileOk) /\ UNCHANGED <<outsideDelete, cliVars>>
    \/ \E raises \in BOOLEAN :
         DeleteTerminate(raises) /\ UNCHANGED <<outsideDelete, cliVars>>
    \/ \E raises \in BOOLEAN :
         DeleteDrop(raises) /\ UNCHANGED <<outsideDelete, cliVars>>
    \/ DeleteUnregister /\ UNCHANGED <<outsideDelete, cliVars>>

SpecDelete == InitDelete /\ [][NextDelete]_vars

\* the call in progress, or the last one, has dropped the database
Dropped == dpc = "unregister" \/ dresult = "deleted"

\* C4: a delete_instance call with force = false and require_permission =
\* true drops the database only if the store reported the agent terminated
\* or not configured, or the agent's review answered confirm = true and that
\* review was written to the store state or to a termination record.
C4_DropNeedsWrittenConsent ==
    (Dropped /\ ~dforce /\ dperm) =>
        \/ exempt
        \/ reviewRaw = "true" /\ written # {}

\* C5: terminate_agent is invoked only on a review whose confirm is the
\* boolean true; a false, missing or non-boolean confirm, an unparseable
\* answer and a failed LLM call never terminate the agent.
C5_TerminateOnlyOnTrue ==
    terminatedOn \in {"none", "true"}

\* C14: whenever delete_instance has refused, the database still exists,
\* the instance is still registered, the call holds the review it raised
\* AgentDeletionRefused with, and that review was written to a termination
\* record file before the error was raised.
C14_RefusalIsRecorded ==
    dresult = "refused" =>
        /\ dname \in databases
        /\ dname \in registry
        /\ review = "refuse"
        /\ "file" \in written

\* C15: the delete command given --force is never stopped by the agent's
\* refusal: it does not end with AgentDeletionRefused.
C15_ForceOverridesRefusal ==
    ~(viaCli /\ cliForce /\ dresult = "refused")

(***************************************************************************)
(* SpecConsent: ConsentManager over one consents directory.  File names    *)
(* are strings, written as sequences of character codes, so that glob and  *)
(* the sort of _find_latest_certificate act on the names themselves.       *)
(***************************************************************************)
MaxTime == 1

\* "p"
Providers == {<<112>>}

\* "a" and "a--b"
ModelIds == {<<97>>, <<97, 45, 45, 98>>}

ConsentDecisions == {"accept", "decline"}

\* "--"
Sep == <<45, 45>>

\* ".json"
JsonSuffix == <<46, 106, 115, 111, 110>>

\* timestamp.strftime("%Y-%m-%dT%H%M%SZ"): fixed width, one second apart
\* gives a different string, the same second the same string
Strftime(t) == <<48 + t>>

\* ModelInfo.certificate_prefix
CertificatePrefix(provider, model_id) == provider \o Sep \o model_id

\* ConsentCertificate.filename
Filename(cert) ==
    CertificatePrefix(cert.provider, cert.model_id) \o Sep
      \o Strftime(cert.timestamp) \o JsonSuffix

StartsWith(name, prefix) ==
    /\ Len(name) >= Len(prefix)
    /\ SubSeq(name, 1, Len(prefix)) = prefix

EndsWith(name, suffix) ==
    /\ Len(name) >= Len(suffix)
    /\ SubSeq(name, Len(name) - Len(suffix) + 1, Len(name)) = suffix

\* the order of Python's sort on paths of one directory
RECURSIVE LexLess(_, _)
LexLess(a, b) ==
    IF a = <<>> THEN b # <<>>
    ELSE IF b = <<>> THEN FALSE
    ELSE IF a[1] # b[1] THEN a[1] < b[1]
    ELSE LexLess(Tail(a), Tail(b))

\* CONSENTS_DIR.glob(f"{prefix}*.json")
Glob(dir, prefix) ==
    {f \in DOMAIN dir : StartsWith(f, prefix) /\ EndsWith(f, JsonSuffix)}

\* sorted(S, reverse=True)
RECURSIVE SortedReverse(_)
SortedReverse(S) ==
    IF S = {} THEN <<>>
    ELSE LET mx == CHOOSE x \in S : \A y \in S : y = x \/ LexLess(y, x)
         IN  <<mx>> \o SortedReverse(S \ {mx})

\* sorted(S)
RECURSIVE SortedForward(_)
SortedForward(S) ==
    IF S = {} THEN <<>>
    ELSE LET mn == CHOOSE x \in S : \A y \in S : y = x \/ LexLess(x, y)
         IN  <<mn>> \o SortedForward(S \ {mn})

\* _find_latest_certificate without reverse=True
FindOldestCertificate(dir, provider, model_id) ==
    LET matches == SortedForward(Glob(dir, provider \o Sep \o model_id \o Sep))
    IN  IF matches # <<>> THEN {matches[1]} ELSE {}

\* _find_latest_certificate: the path found, as a set of at most one name
FindLatestCertificate(dir, provider, model_id) ==
    LET matches == SortedReverse(Glob(dir, provider \o Sep \o model_id \o Sep))
    IN  IF matches # <<>> THEN {matches[1]} ELSE {}

\* get_consent: the certificate read, as a set of at most one certificate
GetConsent(dir, provider, model_id) ==
    {dir[path] : path \in FindLatestCertificate(dir, provider, model_id)}

\* ConsentCertificate.is_valid
IsValid(cert) == cert.decision = "accept" /\ ~cert.revoked

\* has_valid_consent
HasValidConsent(dir, provider, model_id) ==
    \E cert \in GetConsent(dir, provider, model_id) : IsValid(cert)

\* path.write_text: creates the file or replaces its content
WriteText(dir, name, cert) ==
    [f \in DOMAIN dir \cup {name} |-> IF f = name THEN cert ELSE dir[f]]

InitConsent ==
    /\ InitBroker
    /\ InitQueueIdle
    /\ InitHeartbeatIdle
    /\ InitDeleteIdle
    /\ InitToolsIdle
    /\ InitAfterToolsIdle
    /\ files = <<>>
    /\ now = 0
    /\ lastRevoked = {}

\* a second passes
Tick ==
    /\ now < MaxTime
    /\ now' = now + 1
    /\ lastRevoked' = {}
    /\ UNCHANGED files

\* request_consent followed by save_consent, as the consents request
\* command runs them
RequestConsent(provider, model_id, answer) ==
    LET cert == [provider |-> provider, model_id |-> model_id,
                 decision |-> answer, timestamp |-> now,
                 revoked |-> FALSE]
    IN  /\ files' = WriteText(files, Filename(cert), cert)
        /\ lastRevoked' = {}
        /\ UNCHANGED now

\* revoke_consent may go past its two checks
Revocable(dir, provider, model_id) ==
    \E original \in GetConsent(dir, provider, model_id) : ~original.revoked

\* revoke_consent
RevokeConsent(provider, model_id) ==
    /\ IF Revocable(files, provider, model_id)
         THEN LET original == CHOOSE c \in GetConsent(files, provider,
                                                      model_id) : TRUE
                  revoked == [original EXCEPT !.timestamp = now,
                                              !.revoked = TRUE]
              IN  /\ files' = WriteText(files, Filename(revoked), revoked)
                  /\ lastRevoked' = {<<provider, model_id>>}
         ELSE /\ UNCHANGED files
              /\ lastRevoked' = {}
    /\ UNCHANGED now

NextConsent ==
    \/ Tick /\ UNCHANGED outsideConsent
    \/ \E provider \in Providers, model_id \in ModelIds,
          answer \in ConsentDecisions :
         RequestConsent(provider, model_id, answer)
           /\ UNCHANGED outsideConsent
    \/ \E provider \in Providers, model_id \in ModelIds :
         RevokeConsent(provider, model_id) /\ UNCHANGED outsideConsent

SpecConsent == InitConsent /\ [][NextConsent]_vars

\* the files of the directory whose name begins with the prefix p--m--
FilesForPrefix(dir, provider, model_id) ==
    {f \in DOMAIN dir : StartsWith(f, provider \o Sep \o model_id \o Sep)}

\* f has the latest name among the names in S
IsLatestIn(f, S) ==
    f \in S /\ \A g \in S : g = f \/ LexLess(g, f)

\* the directory with every file but those in keep removed
OnlyFiles(dir, keep) == [f \in DOMAIN dir \cap keep |-> dir[f]]

\* C11: has_valid_consent(p, m) is true exactly when the file with the
\* lexicographically latest name among those for prefix p--m-- holds
\* decision = accept and revoked = false, and removing every other file
\* from the directory does not change its value.
C11_LatestFileDecides ==
    \A provider \in Providers, model_id \in ModelIds :
      LET S == FilesForPrefix(files, provider, model_id)
      IN  /\ HasValidConsent(files, provider, model_id)
               <=> \E f \in S : /\ IsLatestIn(f, S)
                                /\ files[f].decision = "accept"
                                /\ files[f].revoked = FALSE
          /\ \A f \in S :
               IsLatestIn(f, S) =>
                 (HasValidConsent(OnlyFiles(files, {f}), provider, model_id)
                    <=> HasValidConsent(files, provider, model_id))

C11_Witness ==
    \E provider \in Providers, model_id \in ModelIds :
      /\ HasValidConsent(files, provider, model_id)
      /\ \E f \in FilesForPrefix(files, provider, model_id) :
           ~IsValid(files[f])

\* C12: a revoke_consent step leaves every file that was in the directory
\* before it in place with the content it had.
C12_RevokeKeepsEarlierFiles ==
    [][(\E provider \in Providers, model_id \in ModelIds :
          RevokeConsent(provider, model_id))
         => \A f \in DOMAIN files :
              f \in DOMAIN files' /\ files'[f] = files[f]]_vars

\* C13: right after revoke_consent(p, m) has returned a certificate,
\* get_consent(p, m) gives a revoked certificate and has_valid_consent(p, m)
\* is false.
C13_RevokedAfterRevoke ==
    \A pm \in lastRevoked :
      /\ GetConsent(files, pm[1], pm[2]) # {}
      /\ \A cert \in GetConsent(files, pm[1], pm[2]) : cert.revoked
      /\ ~HasValidConsent(files, pm[1], pm[2])

C13_Witness ==
    /\ lastRevoked # {}
    /\ Cardinality(DOMAIN files) >= 2

(***************************************************************************)
(* SpecTools: one ToolRegistry.execute call, for every tool spec, context, *)
(* energy, configuration, boundary and approval within the bounds.         *)
(***************************************************************************)
MaxCost == 1

MaxEnergy == 1

ToolSpecs ==
    [energy_cost : 0..MaxCost, requires_approval : BOOLEAN,
     allowed_contexts : SUBSET Contexts]

\* the tools configuration as it bears on one tool in one context: the
\* tool is in `disabled`, its category is in `disabled_categories`, the
\* `enabled` list is None / holds the tool / lacks it, the override of the
\* context has allow_all / has the tool in its disabled list / has an
\* enabled list that lacks the tool / has none of these; at most one of
\* the enablement settings departs from the default
ToolConfigs ==
    {c \in [in_disabled : BOOLEAN, category_disabled : BOOLEAN,
            enabled_list : {"none", "listed", "unlisted"},
            ctx_override : {"plain", "allow_all", "disabled", "unlisted"},
            cost : {NoValue} \cup 0..MaxCost,
            max_energy_per_tool : {NoValue} \cup 0..MaxCost] :
        /\ c.in_disabled => ~c.category_disabled /\ c.enabled_list = "none"
        /\ c.category_disabled => c.enabled_list = "none"
        /\ c.ctx_override # "plain" =>
             ~c.in_disabled /\ ~c.category_disabled /\ c.enabled_list = "none"}

\* the active boundary memory that names the tool or its category, if any,
\* and whether its content is a non-empty text
Boundaries ==
    {[restricts |-> "none", content |-> "none"]}
      \cup [restricts : {"tool", "category"}, content : {"text", "empty"}]

\* an approval is only ever recorded for a tool that requires one, and
\* max_energy_per_tool is the heartbeat override's, read in heartbeat only
CallInputs ==
    {c \in [spec : ToolSpecs, context : Contexts,
            energy_available : {NoValue} \cup 0..MaxEnergy,
            config : ToolConfigs, boundary : Boundaries,
            approved : BOOLEAN] :
        /\ c.approved => c.spec.requires_approval
        /\ c.context # "heartbeat" => c.config.max_energy_per_tool = NoValue}

InitTools ==
    /\ InitBroker
    /\ InitQueueIdle
    /\ InitHeartbeatIdle
    /\ InitDeleteIdle
    /\ InitConsentIdle
    /\ InitAfterToolsIdle
    /\ tcall \in CallInputs
    /\ tresult = NoResult
    /\ tlisted = "unasked"

\* PolicyCheckResult.allow / PolicyCheckResult.deny
Allow == [allowed |-> TRUE, error_type |-> "none"]

Deny(error_type) == [allowed |-> FALSE, error_type |-> error_type]

\* ToolsConfig.is_tool_enabled
IsToolEnabled(config) ==
    IF config.in_disabled THEN FALSE
    ELSE IF config.category_disabled THEN FALSE
    ELSE IF config.enabled_list # "none" THEN config.enabled_list = "listed"
    ELSE TRUE

\* ToolsConfig.is_tool_enabled_for_context
IsToolEnabledForContext(config) ==
    IF ~IsToolEnabled(config) THEN FALSE
    ELSE IF config.ctx_override = "allow_all" THEN TRUE
    ELSE IF config.ctx_override = "disabled" THEN FALSE
    ELSE IF config.ctx_override = "unlisted" THEN FALSE
    ELSE TRUE

\* ToolsConfig.get_energy_cost
GetEnergyCost(config, default_cost) ==
    IF config.cost # NoValue THEN config.cost ELSE default_cost

\* ToolPolicy._check_enabled
CheckEnabled(c) ==
    IF ~IsToolEnabledForContext(c.config) THEN Deny("disabled") ELSE Allow

\* _check_context that lets every context through
CheckContextAny(c) == Allow

\* ToolPolicy._check_context
CheckContext(c) ==
    IF c.context \notin c.spec.allowed_contexts
      THEN Deny("context_denied") ELSE Allow

\* _check_energy on the spec's default cost, ignoring config.costs
CheckEnergyDefaultCost(c) ==
    IF c.energy_available = NoValue THEN Allow
    ELSE LET cost == c.spec.energy_cost
         IN  IF /\ c.config.max_energy_per_tool # NoValue
                /\ cost > c.config.max_energy_per_tool
               THEN Deny("insufficient_energy")
             ELSE IF cost > c.energy_available
               THEN Deny("insufficient_energy")
             ELSE Allow

\* ToolPolicy._check_energy
CheckEnergy(c) ==
    IF c.energy_available = NoValue THEN Allow
    ELSE LET cost == GetEnergyCost(c.config, c.spec.energy_cost)
         IN  IF /\ c.config.max_energy_per_tool # NoValue
                /\ cost > c.config.max_energy_per_tool
               THEN Deny("insufficient_energy")
             ELSE IF cost > c.energy_available
               THEN Deny("insufficient_energy")
             ELSE Allow

\* ToolPolicy._check_boundaries: each query returns the content of the
\* boundary found, and `if boundary:` is Python's truth of that content
CheckBoundaries(c) ==
    IF c.boundary.restricts = "tool" /\ c.boundary.content = "text"
      THEN Deny("boundary_violation")
    ELSE IF c.boundary.restricts = "category" /\ c.boundary.content = "text"
      THEN Deny("boundary_violation")
    ELSE Allow

\* _check_approval without the chat exemption
CheckApprovalEverywhere(c) ==
    IF ~c.spec.requires_approval THEN Allow
    ELSE IF ~c.approved THEN Deny("approval_required")
    ELSE Allow

\* ToolPolicy._check_approval
CheckApproval(c) ==
    IF ~c.spec.requires_approval THEN Allow
    ELSE IF c.context = "chat" THEN Allow
    ELSE IF ~c.approved THEN Deny("approval_required")
    ELSE Allow

\* a check's result together with the checks evaluated so far
Checked(result, evaluated) ==
    [allowed |-> result.allowed, error_type |-> result.error_type,
     evaluated |-> evaluated]

\* check_all with the boundary check moved before the energy check
CheckAllBoundaryFirst(c) ==
    IF ~CheckEnabled(c).allowed
      THEN Checked(CheckEnabled(c), <<"enabled">>)
    ELSE IF ~CheckContext(c).allowed
      THEN Checked(CheckContext(c), <<"enabled", "context">>)
    ELSE IF ~CheckBoundaries(c).allowed
      THEN Checked(CheckBoundaries(c), <<"enabled", "context", "boundary">>)
    ELSE LET soFar == IF c.context = "heartbeat"
                        THEN <<"enabled", "context", "boundary", "energy">>
                        ELSE <<"enabled", "context", "boundary">>
         IN  IF c.context = "heartbeat" /\ ~CheckEnergy(c).allowed
               THEN Checked(CheckEnergy(c), soFar)
             ELSE IF ~CheckApproval(c).allowed
               THEN Checked(CheckApproval(c), Append(soFar, "approval"))
             ELSE Checked(Allow, Append(soFar, "approval"))

\* ToolPolicy.check_all
CheckAll(c) ==
    IF ~CheckEnabled(c).allowed
      THEN Checked(CheckEnabled(c), <<"enabled">>)
    ELSE IF ~CheckContext(c).allowed
      THEN Checked(CheckContext(c), <<"enabled", "context">>)
    ELSE LET soFar == IF c.context = "heartbeat"
                        THEN <<"enabled", "context", "energy">>
                        ELSE <<"enabled", "context">>
         IN  IF c.context = "heartbeat" /\ ~CheckEnergy(c).allowed
               THEN Checked(CheckEnergy(c), soFar)
             ELSE IF ~CheckBoundaries(c).allowed
               THEN Checked(CheckBoundaries(c), Append(soFar, "boundary"))
             ELSE IF ~CheckApproval(c).allowed
               THEN Checked(CheckApproval(c),
                            Append(Append(soFar, "boundary"), "approval"))
             ELSE Checked(Allow,
                          Append(Append(soFar, "boundary"), "approval"))

\* ToolResult.error_result
ErrorResult(error_type, evaluated, ran) ==
    [done |-> TRUE, success |-> FALSE, error_type |-> error_type,
     energy_spent |-> 0, handler_ran |-> ran, evaluated |-> evaluated]

\* how running the handler under asyncio.wait_for can end: it returns a
\* success or an error result of its own, times out, is cancelled, raises
HandlerOutcomes == {"success", "failure", "timeout", "cancelled", "raises"}

\* the part of execute from handler.execute on
RunHandler(c, evaluated, outcome) ==
    IF outcome \in {"success", "failure"}
      THEN [done |-> TRUE, success |-> (outcome = "success"),
            error_type |-> IF outcome = "success" THEN "none"
                           ELSE "execution_failed",
            energy_spent |-> GetEnergyCost(c.config, c.spec.energy_cost),
            handler_ran |-> TRUE, evaluated |-> evaluated]
    ELSE IF outcome = "timeout" THEN ErrorResult("timeout", evaluated, TRUE)
    ELSE IF outcome = "cancelled"
      THEN ErrorResult("cancelled", evaluated, TRUE)
    ELSE ErrorResult("execution_failed", evaluated, TRUE)

\* execute with the arguments validated only once the handler has run
ExecuteCallValidatingLate(c, known, valid, outcome) ==
    IF ~known THEN ErrorResult("unknown_tool", <<>>, FALSE)
    ELSE LET policy_result == CheckAll(c)
         IN  IF ~policy_result.allowed
               THEN ErrorResult(policy_result.error_type,
                                policy_result.evaluated, FALSE)
             ELSE IF ~valid
               THEN [RunHandler(c, policy_result.evaluated, outcome)
                       EXCEPT !.success = FALSE,
                              !.error_type = "invalid_params"]
             ELSE RunHandler(c, policy_result.evaluated, outcome)

\* the result of ToolRegistry.execute for call c: known says the name is
\* registered, valid that handler.validate finds no error
ExecuteCall(c, known, valid, outcome) ==
    IF ~known THEN ErrorResult("unknown_tool", <<>>, FALSE)
    ELSE LET policy_result == CheckAll(c)
         IN  IF ~policy_result.allowed
               THEN ErrorResult(policy_result.error_type,
                                policy_result.evaluated, FALSE)
             ELSE IF ~valid
               THEN ErrorResult("invalid_params",
                                policy_result.evaluated, FALSE)
             ELSE RunHandler(c, policy_result.evaluated, outcome)

\* ToolRegistry.execute
Execute(known, valid, outcome) ==
    /\ ~tresult.done
    /\ tresult' = ExecuteCall(tcall, known, valid, outcome)
    /\ UNCHANGED <<tcall, tlisted>>

NextTools ==
    \E known \in BOOLEAN, valid \in BOOLEAN, outcome \in HandlerOutcomes :
      Execute(known, valid, outcome) /\ UNCHANGED outsideTools

SpecTools == InitTools /\ [][NextTools]_vars

\* the execute call was for a registered tool and has returned
Executed == tresult.done /\ tresult.error_type # "unknown_tool"

\* an active boundary memory names the tool or its category
Restricted == tcall.boundary.restricts # "none"

\* the error types of a result made before the handler: unknown tool, the
\* policy checks' denials, invalid parameters (the handler's own failures
\* come back as execution_failed, timeout or cancelled)
DenialErrorTypes ==
    {"unknown_tool", "invalid_params", "disabled", "context_denied",
     "insufficient_energy", "boundary_violation", "approval_required"}

\* C37: an execution that is denied before the handler runs (unknown tool,
\* policy denial or invalid parameters) never invokes the handler and
\* returns a failure result with energy_spent = 0
C37_DeniedRunsNothingSpendsNothing ==
    (tresult.done /\ tresult.error_type \in DenialErrorTypes) =>
        /\ ~tresult.handler_ran
        /\ tresult.energy_spent = 0
        /\ ~tresult.success

\* a call that passed every policy check for a tool that costs energy was
\* turned down for its arguments
C37_Witness ==
    /\ tresult.done
    /\ tresult.error_type = "invalid_params"
    /\ GetEnergyCost(tcall.config, tcall.spec.energy_cost) > 0

\* C16: while an active boundary memory restricts the tool, its execution
\* fails with boundary_violation in every context, without running the
\* handler and without spending energy
C16_BoundaryAlwaysViolation ==
    (Executed /\ Restricted) =>
        /\ ~tresult.success
        /\ tresult.error_type = "boundary_violation"
        /\ tresult.energy_spent = 0
        /\ ~tresult.handler_ran

\* C17 as stated: in a context outside the tool's allowed_contexts, execute
\* returns a result of error kind context_denied
C17_AlwaysContextDenied ==
    (Executed /\ tcall.context \notin tcall.spec.allowed_contexts) =>
        tresult.error_type = "context_denied"

\* C17: in a context outside the tool's allowed_contexts, execute never runs
\* the handler and returns a failure that spent no energy, of error kind
\* context_denied when the tool is enabled for the context and of error
\* kind disabled when it is not
C17_ContextDeniedUnlessDisabled ==
    (Executed /\ tcall.context \notin tcall.spec.allowed_contexts) =>
        /\ ~tresult.success
        /\ ~tresult.handler_ran
        /\ tresult.energy_spent = 0
        /\ tresult.error_type =
             IF IsToolEnabledForContext(tcall.config)
               THEN "context_denied" ELSE "disabled"

C17_Witness ==
    /\ Executed
    /\ tcall.context \notin tcall.spec.allowed_contexts
    /\ tcall.spec.allowed_contexts # {}
    /\ Restricted
    /\ tresult.error_type = "context_denied"

\* the checks of check_all in the order of its steps; the energy step is
\* taken in heartbeat context only
PipelineOrder(c) ==
    IF c.context = "heartbeat"
      THEN <<"enabled", "context", "energy", "boundary", "approval">>
      ELSE <<"enabled", "context", "boundary", "approval">>

\* what the named check returns on its own
CheckResult(name, c) ==
    CASE name = "enabled" -> CheckEnabled(c)
      [] name = "context" -> CheckContext(c)
      [] name = "energy" -> CheckEnergy(c)
      [] name = "boundary" -> CheckBoundaries(c)
      [] name = "approval" -> CheckApproval(c)

\* the positions in the pipeline of the checks that would fail
FailingChecks(c) ==
    {i \in 1..Len(PipelineOrder(c)) :
        ~CheckResult(PipelineOrder(c)[i], c).allowed}

FirstFailing(c) ==
    CHOOSE i \in FailingChecks(c) : \A j \in FailingChecks(c) : i <= j

PolicyErrorKinds ==
    {"disabled", "context_denied", "insufficient_energy",
     "boundary_violation", "approval_required"}

\* C18: the pipeline denies at the first failing check in the order enabled,
\* context, energy, boundary, approval: the error kind returned is that of
\* the earliest check that would fail, the checks evaluated are exactly
\* those up to it, and when no check would fail all are evaluated and the
\* result carries no policy error
C18_DeniesAtFirstFailure ==
    Executed =>
        IF FailingChecks(tcall) = {}
          THEN /\ tresult.evaluated = PipelineOrder(tcall)
               /\ tresult.error_type \notin PolicyErrorKinds
          ELSE /\ tresult.evaluated =
                    SubSeq(PipelineOrder(tcall), 1, FirstFailing(tcall))
               /\ tresult.error_type =
                    CheckResult(PipelineOrder(tcall)[FirstFailing(tcall)],
                                tcall).error_type
               /\ ~tresult.handler_ran

C18_Witness ==
    /\ Executed
    /\ tcall.context = "heartbeat"
    /\ FailingChecks(tcall) = {3, 4, 5}
    /\ tresult.error_type = "insufficient_energy"
    /\ tresult.evaluated = <<"enabled", "context", "energy">>

\* the checks check_all takes before the boundary check all allow
PassesUntilEnergy(c) ==
    /\ CheckEnabled(c).allowed
    /\ CheckContext(c).allowed
    /\ c.context = "heartbeat" => CheckEnergy(c).allowed

OverBudget(c) ==
    LET cost == GetEnergyCost(c.config, c.spec.energy_cost)
    IN  \/ /\ c.config.max_energy_per_tool # NoValue
           /\ cost > c.config.max_energy_per_tool
        \/ cost > c.energy_available

C21_EnergySpentIsResolvedCost ==
    (Executed /\ tresult.handler_ran) =>
        tresult.energy_spent =
            GetEnergyCost(tcall.config, tcall.spec.energy_cost)

(***************************************************************************)
(* SpecBatch: one ToolRegistry.execute_batch call in heartbeat context,    *)
(* for every list of calls, parallel flag and energy within the bounds.    *)
(***************************************************************************)
MaxBatch == 2

\* a call of the batch: whether its name is registered, and its spec's
\* supports_parallel and energy_cost (an unregistered name has no spec)
BatchCalls ==
    {b \in [known : BOOLEAN, supports_parallel : BOOLEAN,
            energy_cost : 0..MaxCost] :
        ~b.known => ~b.supports_parallel /\ b.energy_cost = 0}

BatchLists == UNION {[1..n -> BatchCalls] : n \in 1..MaxBatch}

InitBatch ==
    /\ InitBroker
    /\ InitPeripheryIdle
    /\ InitQueueIdle
    /\ InitHeartbeatIdle
    /\ InitDeleteIdle
    /\ InitConsentIdle
    /\ InitToolsIdle
    /\ InitMaintenanceIdle
    /\ InitThinkIdle
    /\ bcalls \in BatchLists
    /\ bparallel \in BOOLEAN
    /\ bstart \in {NoValue} \cup 0..MaxEnergy
    /\ bcontext = [tool_context |-> "heartbeat", energy_available |-> bstart]
    /\ bruns = <<>>

\* `handler and handler.spec.supports_parallel`
ParallelSafe(i) == bcalls[i].known /\ bcalls[i].supports_parallel

HasRun(i) == \E k \in 1..Len(bruns) : bruns[k].idx = i

\* the call_context built for call i, and the tool it names, as one call
\* of execute
BatchCallInput(i) ==
    [DefaultCall EXCEPT !.spec.energy_cost = bcalls[i].energy_cost,
                        !.context = bcontext.tool_context,
                        !.energy_available = bcontext.energy_available]

\* self.execute(tool_name, arguments, call_context) for call i
BatchExecute(i, valid, outcome) ==
    LET result == ExecuteCall(BatchCallInput(i), bcalls[i].known, valid,
                              outcome)
    IN  [idx |-> i, seen |-> bcontext.energy_available,
         spent |-> result.energy_spent, error_type |-> result.error_type]

\* execute_batch(parallel=False): the next call of the list, then
\* context.energy_available -= result.energy_spent
BatchSequentialStep(valid, outcome) ==
    /\ ~bparallel
    /\ Len(bruns) < Len(bcalls)
    /\ LET run == BatchExecute(Len(bruns) + 1, valid, outcome)
       IN  /\ bruns' = Append(bruns, run)
           /\ bcontext' =
                IF bcontext.energy_available # NoValue
                  THEN [bcontext EXCEPT !.energy_available = @ - run.spent]
                  ELSE bcontext
    /\ UNCHANGED <<bcalls, bparallel, bstart>>

\* execute_batch(parallel=True), asyncio.gather: any parallel-safe call
\* that has not run yet
BatchGatherStep(i, valid, outcome) ==
    /\ bparallel
    /\ i \in 1..Len(bcalls)
    /\ ParallelSafe(i)
    /\ ~HasRun(i)
    /\ bruns' = Append(bruns, BatchExecute(i, valid, outcome))
    /\ UNCHANGED <<bcalls, bparallel, bstart, bcontext>>

\* execute_batch(parallel=True), `for ... in sequential_calls`: after the
\* gather, the first call that is not parallel-safe and has not run yet
BatchOrderedStep(i, valid, outcome) ==
    /\ bparallel
    /\ i \in 1..Len(bcalls)
    /\ \A j \in 1..Len(bcalls) : ParallelSafe(j) => HasRun(j)
    /\ ~ParallelSafe(i)
    /\ ~HasRun(i)
    /\ \A j \in 1..(i - 1) : ~ParallelSafe(j) => HasRun(j)
    /\ bruns' = Append(bruns, BatchExecute(i, valid, outcome))
    /\ UNCHANGED <<bcalls, bparallel, bstart, bcontext>>

NextBatch ==
    \/ \E valid \in BOOLEAN, outcome \in HandlerOutcomes :
         BatchSequentialStep(valid, outcome) /\ UNCHANGED outsideBatch
    \/ \E i \in 1..MaxBatch, valid \in BOOLEAN, outcome \in HandlerOutcomes :
         BatchGatherStep(i, valid, outcome) /\ UNCHANGED outsideBatch
    \/ \E i \in 1..MaxBatch, valid \in BOOLEAN, outcome \in HandlerOutcomes :
         BatchOrderedStep(i, valid, outcome) /\ UNCHANGED outsideBatch

SpecBatch == InitBatch /\ [][NextBatch]_vars

RECURSIVE SpentBefore(_)
\* the energy spent by the calls that ran before the k-th run
SpentBefore(k) ==
    IF k <= 1 THEN 0 ELSE SpentBefore(k - 1) + bruns[k - 1].spent

\* C22: in execute_batch, the calls that are not parallel-safe run one at a
\* time in their original order, and each of them sees an energy_available
\* reduced by the energy spent by the calls of the batch that ran before it
C22_SequentialCallsSeeReducedEnergy ==
    \A k \in 1..Len(bruns) :
        ~ParallelSafe(bruns[k].idx) =>
            /\ \A j \in 1..(bruns[k].idx - 1) :
                 ~ParallelSafe(j) =>
                    \E h \in 1..(k - 1) : bruns[h].idx = j
            /\ bstart # NoValue => bruns[k].seen = bstart - SpentBefore(k)

(***************************************************************************)
(* SpecToolList: one ToolRegistry.get_enabled_tools call, followed for one *)
(* registered tool, for every spec, context, configuration and boundary    *)
(* within the bounds.                                                      *)
(***************************************************************************)
InitToolList == InitTools

\* ToolRegistry.get_enabled_tools, the loop body for the tool: it is
\* appended to the list or left out
GetEnabledTools ==
    /\ tlisted = "unasked"
    /\ tlisted' =
         IF IsToolEnabledForContext(tcall.config)
           THEN IF tcall.context \in tcall.spec.allowed_contexts
                  THEN "listed" ELSE "omitted"
           ELSE "omitted"
    /\ UNCHANGED <<tcall, tresult>>

NextToolList == GetEnabledTools /\ UNCHANGED outsideTools

SpecToolList == InitToolList /\ [][NextToolList]_vars

\* C23: the tool list exposed for a context contains exactly the registered
\* tools that pass the enabled, context and boundary checks for it, so a
\* tool restricted by an active boundary is never listed
C23_ListedIffAdmitted ==
    tlisted # "unasked" =>
        /\ tlisted = "listed" <=>
             /\ CheckEnabled(tcall).allowed
             /\ CheckContext(tcall).allowed
             /\ CheckBoundaries(tcall).allowed
        /\ Restricted => tlisted = "omitted"

(***************************************************************************)
(* SpecWorkers: _amain in mode "both": HeartbeatWorker.run and             *)
(* MaintenanceWorker.run side by side, the signal handler, and the agent   *)
(* being terminated from outside the workers (delete_instance).            *)
(***************************************************************************)
\* the decisions a heartbeat takes here: one terminate, or one think
WorkerDecisions == {<<"terminate">>, <<"think">>}

InitWorkers ==
    /\ InitBroker
    /\ InitPeripheryIdle
    /\ InitQueueIdle
    /\ InitDeleteIdle
    /\ InitConsentIdle
    /\ InitToolsIdle
    /\ InitBatchIdle
    /\ InitHeartbeatIdle
    /\ InitMaintenanceIdle
    /\ InitThinkIdle

\* MaintenanceWorker.run up to the loop: running = True, connect()
MRun ==
    /\ mpc = "init"
    /\ mrunning' = TRUE
    /\ mconnected' = TRUE
    /\ mpc' = "loop"

\* `while self.running`, then the finally clause
MLoop ==
    /\ mpc = "loop"
    /\ IF mrunning
         THEN mpc' = "check_terminated" /\ UNCHANGED mconnected
         ELSE mpc' = "exited" /\ mconnected' = FALSE
    /\ UNCHANGED mrunning

\* MaintenanceWorker._is_agent_terminated: the store's answer, or False
\* when the query raises
MCheckTerminated(raises) ==
    /\ mpc = "check_terminated"
    /\ IF agentTerminated /\ ~raises
         THEN mpc' = "exited" /\ mconnected' = FALSE
         ELSE mpc' = "poll_inbox" /\ UNCHANGED mconnected
    /\ UNCHANGED mrunning

\* bridge.poll_inbox_messages(); an exception ends the iteration
MPollInbox(raises) ==
    /\ mpc = "poll_inbox"
    /\ mpc' = IF raises THEN "sleep" ELSE "maintenance"
    /\ UNCHANGED <<mrunning, mconnected>>

\* _run_maintenance_if_due
MRunMaintenance(raises) ==
    /\ mpc = "maintenance"
    /\ mpc' = IF raises THEN "sleep" ELSE "should_run"
    /\ UNCHANGED <<mrunning, mconnected>>

\* _run_subconscious_if_due: should_run_subconscious_decider
MShouldRun(due, raises) ==
    /\ mpc = "should_run"
    /\ mpc' = IF ~raises /\ due THEN "decider" ELSE "sleep"
    /\ UNCHANGED <<mrunning, mconnected>>

\* run_subconscious_decider: it applies the observations, returns
\* {"skipped": True} when chat_json raises, or raises itself from
\* load_llm_config, get_subconscious_context or
\* apply_subconscious_observations
DeciderOutcomes == {"applied", "skipped", "raises"}

\* _run_subconscious_if_due: `result = await run_subconscious_decider(conn)`
MRunDecider(outcome) ==
    /\ mpc = "decider"
    /\ mpc' = IF outcome = "raises" THEN "sleep" ELSE "mark"
    /\ UNCHANGED <<mrunning, mconnected>>

\* _run_subconscious_if_due: mark_subconscious_decider_run(conn)
MMark ==
    /\ mpc = "mark"
    /\ mpc' = "sleep"
    /\ UNCHANGED <<mrunning, mconnected>>

\* asyncio.sleep(POLL_INTERVAL)
MSleep ==
    /\ mpc = "sleep"
    /\ mpc' = "loop"
    /\ UNCHANGED <<mrunning, mconnected>>

\* _amain's shutdown(signum, frame): hb_worker.stop(), maint_worker.stop()
Shutdown ==
    /\ running \/ mrunning
    /\ running' = FALSE
    /\ mrunning' = FALSE
    /\ UNCHANGED <<consentValid, connected, hpc, agentTerminated, hbOutcome,
                   decision, start_index, batch, prevStart, lastService,
                   llmIssued, toolIssued, mconnected, mpc>>

\* the agent is terminated by another process while the workers run
TerminatedElsewhere ==
    /\ ~agentTerminated
    /\ agentTerminated' = TRUE
    /\ UNCHANGED <<consentValid, running, connected, hpc, hbOutcome,
                   decision, start_index, batch, prevStart, lastService,
                   llmIssued, toolIssued, workerVars>>

\* a step of the heartbeat worker
HeartbeatWorkerStep ==
    \/ HRun
    \/ HLoop
    \/ \E raises \in BOOLEAN : HCheckTerminated(raises)
    \/ \E due \in BOOLEAN : HRunHeartbeat(due)
    \/ \E outcome \in InitialOutcomes, d \in WorkerDecisions :
         HInitialCall(outcome, d)
    \/ \E outcome \in DecisionQueryOutcomes : HApplyDecision(outcome)
    \/ \E outcome \in ServiceOutcomes, confirm \in ConfirmValues :
         HServiceCall(outcome, confirm)
    \/ HSleep

\* a step of the maintenance worker
MaintenanceWorkerStep ==
    \/ MRun
    \/ MLoop
    \/ \E raises \in BOOLEAN : MCheckTerminated(raises)
    \/ \E raises \in BOOLEAN : MPollInbox(raises)
    \/ \E raises \in BOOLEAN : MRunMaintenance(raises)
    \/ \E due \in BOOLEAN, raises \in BOOLEAN : MShouldRun(due, raises)
    \/ \E outcome \in DeciderOutcomes : MRunDecider(outcome)
    \/ MMark
    \/ MSleep

NextWorkers ==
    \/ HeartbeatWorkerStep /\ UNCHANGED outsideHeartbeat
    \/ MaintenanceWorkerStep /\ UNCHANGED outsideMaintenance
    \/ Shutdown
         /\ UNCHANGED <<brokerVars, queueVars, deleteVars, consentVars,
                        cliVars, toolVars, batchVars, thinkVars,
                        peripheryVars>>
    \/ TerminatedElsewhere
         /\ UNCHANGED <<brokerVars, queueVars, deleteVars, consentVars,
                        cliVars, toolVars, batchVars, thinkVars,
                        peripheryVars>>

SpecWorkers == InitWorkers /\ [][NextWorkers]_vars

\* this step, execute_heartbeat_decision returns terminated = True to
\* _run_heartbeat_if_due
ObservesTerminated == hbOutcome # "terminated" /\ hbOutcome' = "terminated"

\* C24: when the heartbeat worker observes terminated = true from a
\* heartbeat result, stop() is called on the heartbeat worker and on the
\* maintenance worker: neither is running afterwards
C24_TerminationStopsBothWorkers ==
    [][ObservesTerminated => ~running' /\ ~mrunning']_vars

\* C25: once is_agent_terminated() is true, a worker loop that makes its
\* check exits there and closes its connections, without going on to a
\* heartbeat, an inbox poll, a maintenance run or a decider run
C25_TerminatedWorkersExitAtCheck ==
    [][/\ (agentTerminated /\ hpc = "check_terminated" /\ hpc' # hpc)
            => hpc' = "exited" /\ ~connected'
       /\ (agentTerminated /\ mpc = "check_terminated" /\ mpc' # mpc)
            => mpc' = "exited" /\ ~mconnected']_vars

\* asyncio.gather(hb_worker.run(), maint_worker.run()): each coroutine is
\* resumed whenever it can take a step
SpecWorkersFair ==
    /\ SpecWorkers
    /\ WF_vars(HeartbeatWorkerStep /\ UNCHANGED outsideHeartbeat)
    /\ WF_vars(MaintenanceWorkerStep /\ UNCHANGED outsideMaintenance)

C30_DeciderRunIsMarked ==
    [][(mpc = "decider" /\ mpc' # mpc) => mpc' = "mark"]_vars

(***************************************************************************)
(* SpecThink: one think call serviced by the worker, from the LLM request  *)
(* to the application of its result, for every kind of think call, both    *)
(* places that service calls, and every end of the request.                *)
(***************************************************************************)
ThinkKinds ==
    {"heartbeat_decision", "brainstorm_goals", "inquire", "reflect",
     "termination_confirm", "consent_request"}

\* where the call is serviced: the loop of _run_heartbeat_if_due over the
\* calls start_heartbeat returned, or the loop of
\* execute_heartbeat_decision
ThinkSites == {"heartbeat_start", "decision_loop"}

\* how chat_completion ends: it returns a response, or raises on a timeout
\* or on another error
LlmOutcomes == {"content", "timeout", "error"}

\* the response's content: a JSON object, text around a JSON object, a JSON
\* value that is not an object, text without JSON, nothing
RawContents == {"object", "object_in_text", "not_object", "text", "empty"}

InitThink ==
    /\ InitBroker
    /\ InitPeripheryIdle
    /\ InitQueueIdle
    /\ InitHeartbeatIdle
    /\ InitDeleteIdle
    /\ InitConsentIdle
    /\ InitToolsIdle
    /\ InitBatchIdle
    /\ InitMaintenanceIdle
    /\ tkind \in ThinkKinds
    /\ tsite \in ThinkSites
    /\ tllm = "none"
    /\ traw = "none"
    /\ tdoc = "none"
    /\ tapplied = "none"
    /\ tproceeds = FALSE
    /\ tpc = "process"

\* parse_json_response: the parsed object, or a copy of the fallback
ParseJsonResponse(raw) ==
    IF raw = "empty" THEN "fallback"
    ELSE IF raw = "object" THEN "parsed"
    ELSE IF raw = "object_in_text" THEN "parsed"
    ELSE "fallback"

\* chat_json: chat_completion is awaited outside any try block
ChatJson(llm, raw) ==
    IF llm = "content" THEN ParseJsonResponse(raw) ELSE "raises"

\* what the servicing loop does when process_call_payload or apply_result
\* raised: _run_heartbeat_if_due logs and takes the next call, never
\* reaching execute_heartbeat_decision; execute_heartbeat_decision records
\* the error and goes on to next_index
ProceedsAfterError(site) == site = "decision_loop"

\* call_processor.process_call_payload for the think call
ThinkProcess(llm, raw) ==
    /\ tpc = "process"
    /\ llm = "content" <=> raw # "none"
    /\ tllm' = llm
    /\ traw' = raw
    /\ IF ChatJson(llm, raw) = "raises"
         THEN /\ tdoc' = "none"
              /\ tpc' = "done"
              /\ tproceeds' = ProceedsAfterError(tsite)
         ELSE /\ tdoc' = ChatJson(llm, raw)
              /\ tpc' = "apply"
              /\ UNCHANGED tproceeds
    /\ UNCHANGED <<tkind, tsite, tapplied>>

\* call_processor.apply_result for the think call, and what follows it
ThinkApply(raises) ==
    /\ tpc = "apply"
    /\ tpc' = "done"
    /\ IF raises
         THEN /\ tproceeds' = ProceedsAfterError(tsite)
              /\ UNCHANGED tapplied
         ELSE /\ tproceeds' = TRUE
              /\ tapplied' = tdoc
    /\ UNCHANGED <<tkind, tsite, tllm, traw, tdoc>>

NextThink ==
    \/ \E llm \in LlmOutcomes, raw \in RawContents \cup {"none"} :
         ThinkProcess(llm, raw) /\ UNCHANGED outsideThink
    \/ \E raises \in BOOLEAN : ThinkApply(raises) /\ UNCHANGED outsideThink

SpecThink == InitThink /\ [][NextThink]_vars

\* the LLM request failed, or its response could not be parsed
ThinkFailed ==
    \/ tllm \in {"timeout", "error"}
    \/ tllm = "content" /\ traw \in {"not_object", "text", "empty"}

\* C27: a failure of a think call's LLM request (timeout or error) or an
\* unparseable response is replaced by the declared fallback document, and
\* unless applying it raises, the fallback is applied as the call's result
\* and the heartbeat proceeds
C27_FailureBecomesFallback ==
    ThinkFailed =>
        /\ tdoc = "fallback"
        /\ tapplied # "none" => tapplied = "fallback" /\ tproceeds

C29_ServicedAfterEarlierApplied ==
    hpc = "service_call" =>
        /\ prevStart <= start_index
        /\ lastService # "failed"

(***************************************************************************)
(* The RabbitMQ bridge: publish_outbox_messages, poll_inbox_messages and   *)
(* the workers' calls into the bridge.                                     *)
(***************************************************************************)
InitCoreIdle ==
    /\ InitBroker
    /\ InitQueueIdle
    /\ InitHeartbeatIdle
    /\ InitDeleteIdle
    /\ InitConsentIdle
    /\ InitToolsIdle
    /\ InitBatchIdle
    /\ InitMaintenanceIdle
    /\ InitThinkIdle

InitBridge ==
    /\ InitCoreIdle
    /\ InitRegistryIdle
    /\ InitToolsConfigIdle
    /\ InitLoopIdle
    /\ InitCloneIdle
    /\ InitTransformIdle
    /\ benabled \in BOOLEAN
    /\ outbox = [i \in MsgIds |-> "absent"]
    /\ handed = {}
    /\ routed = {}
    /\ ppc = "idle"
    /\ prow = 0
    /\ inboxQueue = <<>>
    /\ removed = {}
    /\ fetched = <<>>
    /\ workingMemory = {}
    /\ contacted = {}
    /\ bpc = "idle"

outboxSide == <<outbox, handed, routed, ppc, prow>>

inboxSide == <<inboxQueue, removed, fetched, workingMemory, contacted, bpc>>

\* a store call queues outbox row i (rows are written in the order of their
\* ids) and hands its payload to the heartbeat worker as outbox_messages
QueueOutbox(i) ==
    /\ outbox[i] = "absent"
    /\ \A j \in MsgIds : j < i => outbox[j] # "absent"
    /\ outbox' = [outbox EXCEPT ![i] = "pending"]
    /\ handed' = handed \cup {i}
    /\ UNCHANGED <<benabled, routed, ppc, prow, inboxSide>>

\* HeartbeatWorker._publish_outbox: nothing to do for an empty list; else
\* self.bridge.publish_outbox_payloads(messages), a method RabbitMQBridge
\* does not have: the call raises AttributeError and no row changes
HPublishOutbox ==
    /\ handed # {}
    /\ handed' = {}
    /\ UNCHANGED <<benabled, outbox, routed, ppc, prow, inboxSide>>

\* SELECT ... WHERE status = 'pending' ORDER BY created_at LIMIT 1
OldestPendingRow ==
    LET pending == {i \in MsgIds : outbox[i] = "pending"}
    IN  IF pending = {} THEN 0
        ELSE CHOOSE i \in pending : \A j \in pending : i <= j

\* publish_outbox_messages, one turn of its loop up to the POST: returns 0
\* when the bridge is disabled, returns when no row is pending
PSelect ==
    /\ ppc = "idle"
    /\ IF benabled /\ OldestPendingRow # 0
         THEN /\ prow' = OldestPendingRow
              /\ ppc' = "post"
         ELSE UNCHANGED <<prow, ppc>>
    /\ UNCHANGED <<benabled, outbox, handed, routed, inboxSide>>

\* POST .../publish: ok is status 200 and routed; anything else raises
PPost(outcome) ==
    /\ ppc = "post"
    /\ IF outcome = "routed"
         THEN /\ routed' = routed \cup {prow}
              /\ ppc' = "mark_sent"
         ELSE /\ routed' = routed
              /\ ppc' = "mark_failed"
    /\ UNCHANGED <<benabled, outbox, handed, prow, inboxSide>>

\* UPDATE ... SET status = 'sent'; it is inside the try, so when it raises
\* the except branch is taken. The loop's next turn is PSelect again.
PMarkSent(raises) ==
    /\ ppc = "mark_sent"
    /\ IF raises
         THEN /\ ppc' = "mark_failed"
              /\ outbox' = outbox
         ELSE /\ ppc' = "idle"
              /\ outbox' = [outbox EXCEPT ![prow] = "sent"]
    /\ UNCHANGED <<benabled, handed, routed, prow, inboxSide>>

\* except Exception: UPDATE ... SET status = 'failed'; return published.
\* When this UPDATE raises too, the exception leaves the method.
PMarkFailed(raises) ==
    /\ ppc = "mark_failed"
    /\ ppc' = "idle"
    /\ outbox' = IF raises THEN outbox ELSE [outbox EXCEPT ![prow] = "failed"]
    /\ UNCHANGED <<benabled, handed, routed, prow, inboxSide>>

PublishOutboxMessages ==
    \/ PSelect
    \/ \E outcome \in {"routed", "not_routed", "error"} : PPost(outcome)
    \/ \E raises \in BOOLEAN : PMarkSent(raises)
    \/ \E raises \in BOOLEAN : PMarkFailed(raises)

\* somebody publishes message m to the inbox queue
InboxArrives(m) ==
    /\ m \notin removed
    /\ \A k \in 1..Len(inboxQueue) : inboxQueue[k] # m
    /\ \A j \in MsgIds :
         j < m => j \in removed \/ \E k \in 1..Len(inboxQueue) : inboxQueue[k] = j
    /\ inboxQueue' = Append(inboxQueue, m)
    /\ UNCHANGED <<benabled, outboxSide, removed, fetched, workingMemory,
                   contacted, bpc>>

\* poll_inbox_messages up to the loop: POST .../get with count = max_messages
\* (10, more than the queue holds here) and ackmode ack_requeue_false, which
\* takes the messages off the queue; returns 0 when the bridge is disabled
\* or the request fails
PollFetch(ok) ==
    /\ bpc = "idle"
    /\ IF benabled /\ ok /\ inboxQueue # <<>>
         THEN /\ fetched' = inboxQueue
              /\ inboxQueue' = <<>>
              /\ removed' = removed \cup {inboxQueue[k] : k \in 1..Len(inboxQueue)}
              /\ bpc' = "ingest"
         ELSE UNCHANGED <<fetched, inboxQueue, removed, bpc>>
    /\ UNCHANGED <<benabled, outboxSide, workingMemory, contacted>>

\* for msg in msgs: pool.acquire() and SELECT add_to_working_memory(...), a
\* statement of its own (no transaction is opened); except Exception:
\* return ingested
PollAddToWorkingMemory(raises) ==
    /\ bpc = "ingest"
    /\ IF raises
         THEN /\ fetched' = <<>>
              /\ bpc' = "idle"
              /\ workingMemory' = workingMemory
         ELSE /\ workingMemory' = workingMemory \cup {Head(fetched)}
              /\ bpc' = "contact"
              /\ fetched' = fetched
    /\ UNCHANGED <<benabled, outboxSide, inboxQueue, removed, contacted>>

\* UPDATE heartbeat_state SET last_user_contact = CURRENT_TIMESTAMP, the
\* second statement; ingested += 1 and the next message, or return
PollBumpContact(raises) ==
    /\ bpc = "contact"
    /\ IF raises
         THEN /\ fetched' = <<>>
              /\ bpc' = "idle"
              /\ contacted' = contacted
         ELSE /\ contacted' = contacted \cup {Head(fetched)}
              /\ fetched' = Tail(fetched)
              /\ bpc' = IF Tail(fetched) = <<>> THEN "idle" ELSE "ingest"
    /\ UNCHANGED <<benabled, outboxSide, inboxQueue, removed, workingMemory>>

\* MaintenanceWorker.run, the bridge's part of an iteration: poll_inbox_messages
PollInboxMessages ==
    \/ \E ok \in BOOLEAN : PollFetch(ok)
    \/ \E raises \in BOOLEAN : PollAddToWorkingMemory(raises)
    \/ \E raises \in BOOLEAN : PollBumpContact(raises)

NextBridge ==
    \/ \E i \in MsgIds : QueueOutbox(i) /\ UNCHANGED outsideBridge
    \/ HPublishOutbox /\ UNCHANGED outsideBridge
    \/ PublishOutboxMessages /\ UNCHANGED outsideBridge
    \/ \E m \in MsgIds : InboxArrives(m) /\ UNCHANGED outsideBridge
    \/ PollInboxMessages /\ UNCHANGED outsideBridge

SpecBridge == InitBridge /\ [][NextBridge]_vars

\* what the workers' loops call again and again: the heartbeat worker's
\* _publish_outbox and the maintenance worker's poll_inbox_messages. Neither
\* loop calls publish_outbox_messages.
SpecBridgeFair ==
    /\ SpecBridge
    /\ WF_vars(HPublishOutbox /\ UNCHANGED outsideBridge)
    /\ WF_vars(PollInboxMessages /\ UNCHANGED outsideBridge)

\* C31: while the bridge is enabled, every message written to the outbox
\* with status pending eventually becomes sent or failed
C31_PendingEventuallySettled ==
    \A i \in MsgIds :
       (benabled /\ outbox[i] = "pending") ~> (outbox[i] \in {"sent", "failed"})

\* C32: each ingested inbox message is written to working memory and bumps
\* last_user_contact in one atomic step: in no state has a message been
\* written to working memory without last_user_contact updated for it
C32_IngestAtomicWithContact == workingMemory \subseteq contacted

\* C38: every message that poll_inbox_messages removed from the inbox queue
\* is written to working memory by the time the poll returns, also when the
\* ingestion of one message of the batch failed
C38_RemovedMessagesIngested == bpc = "idle" => removed \subseteq workingMemory

(***************************************************************************)
(* clone_instance: create the target database, pipe pg_dump of the source  *)
(* into pg_restore, register the target.                                   *)
(***************************************************************************)
\* how pg_restore ends: exit code 0; non-zero with no "error" in stderr;
\* non-zero with "error" and no "warning" in stderr; non-zero with both (as
\* in "pg_restore: error: could not execute query ..." followed by
\* "pg_restore: warning: errors ignored on restore: 1")
RestoreOutcomes == {"ok", "warnings", "errors", "errors_and_warnings"}

\* pg_restore reported errors
RestoreFailed == crestore \in {"errors", "errors_and_warnings"}

InitClone ==
    /\ InitCoreIdle
    /\ InitRegistryIdle
    /\ InitToolsConfigIdle
    /\ InitLoopIdle
    /\ InitBridgeIdle
    /\ InitTransformIdle
    /\ cpc = "start"
    /\ cname \in {"valid", "invalid"}
    /\ csource \in BOOLEAN
    /\ ctools \in {"present", "missing"}
    /\ cdump \in {"ok", "failed"}
    /\ crestore \in RestoreOutcomes
    \* pg_restore does not succeed on the output of a failed pg_dump
    /\ cdump = "failed" => RestoreFailed
    /\ cdb \in BOOLEAN
    /\ ccreated = FALSE
    /\ cregistered \in BOOLEAN
    \* a registered target has its database
    /\ cregistered => cdb
    /\ cresult = "none"

CloneEnds(result) ==
    /\ cpc' = "done"
    /\ cresult' = result

\* validate_instance_name, registry.get(source), registry.exists(target),
\* database_exists(target_db), create_database(target_db)
CloneCreate(createOk) ==
    /\ cpc = "start"
    /\ IF cname = "invalid" \/ ~csource \/ cregistered \/ cdb
         THEN /\ CloneEnds("value_error")
              /\ UNCHANGED <<cdb, ccreated>>
         ELSE IF ~createOk
                THEN /\ CloneEnds("create_error")
                     /\ UNCHANGED <<cdb, ccreated>>
                ELSE /\ cdb' = TRUE
                     /\ ccreated' = TRUE
                     /\ cpc' = "popen"
                     /\ cresult' = cresult
    /\ UNCHANGED <<cname, csource, ctools, cdump, crestore, cregistered>>

\* subprocess.Popen(dump_cmd), Popen(restore_cmd); except FileNotFoundError:
\* drop_database, raise RuntimeError (drop_database's own exception leaves
\* the function instead)
ClonePopen(dropOk) ==
    /\ cpc = "popen"
    /\ IF ctools = "missing"
         THEN /\ cdb' = ~dropOk
              /\ CloneEnds(IF dropOk THEN "runtime_error" ELSE "drop_error")
         ELSE /\ cpc' = "restore"
              /\ UNCHANGED <<cdb, cresult>>
    /\ UNCHANGED <<cname, csource, ctools, cdump, crestore, ccreated,
                   cregistered>>

\* restore_proc.communicate(), dump_proc.wait() (its return code is not
\* looked at); the clone counts as failed when pg_restore's return code is
\* non-zero and stderr has "error" and has no "warning": drop_database and
\* raise RuntimeError, which `except Exception` catches: drop_database again
\* with its failure ignored, and re-raise
CloneRestore(dropOk, dropAgainOk) ==
    /\ cpc = "restore"
    /\ IF crestore = "errors"
         THEN /\ cdb' = ~(dropOk \/ dropAgainOk)
              /\ CloneEnds(IF dropOk THEN "runtime_error" ELSE "drop_error")
         ELSE /\ cpc' = "register"
              /\ UNCHANGED <<cdb, cresult>>
    /\ UNCHANGED <<cname, csource, ctools, cdump, crestore, ccreated,
                   cregistered>>

\* registry.add(config); return config
CloneRegister(addOk) ==
    /\ cpc = "register"
    /\ cregistered' = addOk
    /\ CloneEnds(IF addOk THEN "returned" ELSE "value_error")
    /\ UNCHANGED <<cname, csource, ctools, cdump, crestore, cdb, ccreated>>

NextClone ==
    \/ \E createOk \in BOOLEAN : CloneCreate(createOk) /\ UNCHANGED outsideClone
    \/ \E dropOk \in BOOLEAN : ClonePopen(dropOk) /\ UNCHANGED outsideClone
    \/ \E dropOk, dropAgainOk \in BOOLEAN :
          CloneRestore(dropOk, dropAgainOk) /\ UNCHANGED outsideClone
    \/ \E addOk \in BOOLEAN : CloneRegister(addOk) /\ UNCHANGED outsideClone

SpecClone == InitClone /\ [][NextClone]_vars

\* the clone failed after the target database was created: the tools are
\* missing, pg_dump failed or pg_restore failed
CloneFailedAfterCreate ==
    /\ ccreated
    /\ ctools = "missing" \/ cdump = "failed" \/ RestoreFailed

\* C33: when clone_instance fails after the target database was created
\* (dump failure, restore failure or missing tools), the target database is
\* dropped, the error is surfaced to the caller and the target is not
\* registered
C33_FailedCloneDropsTarget ==
    (cpc = "done" /\ CloneFailedAfterCreate) =>
        /\ ~cdb
        /\ cresult \notin {"none", "returned"}
        /\ ~cregistered

(***************************************************************************)
(* Deliberate transformation of a worldview belief: begin_belief_-         *)
(* exploration, record_transformation_effort, attempt_worldview_-          *)
(* transformation, abandon_belief_exploration (stored procedures).         *)
(***************************************************************************)
MaxReflections == 2

MaxHeartbeats == 1

\* the typed reasons of a failed attempt
TransformationReasons ==
    {"insufficient_reflections", "insufficient_evidence",
     "stability_not_cleared"}

\* set_config('transformation.<subcategory>', {min_reflections,
\* min_heartbeats, ...}) and a belief with change_requires =
\* deliberate_transformation and default_transformation_state()
InitTransform ==
    /\ InitCoreIdle
    /\ InitRegistryIdle
    /\ InitToolsConfigIdle
    /\ InitLoopIdle
    /\ InitBridgeIdle
    /\ InitCloneIdle
    /\ xcontent = "old"
    /\ xactive = FALSE
    /\ xcount = 0
    /\ xevidence = FALSE
    /\ xcleared = FALSE
    /\ xbeats = 0
    /\ xminR \in 0..MaxReflections
    /\ xminH \in 0..MaxHeartbeats
    /\ xlast = "none"
    /\ xfailed = FALSE

transformationState == <<xactive, xcount, xevidence, xcleared>>

\* begin_belief_exploration(belief, goal): attaches the goal and
\* initializes transformation_state
BeginBeliefExploration ==
    /\ ~xactive
    /\ xactive' = TRUE
    /\ xcount' = 0
    /\ xevidence' = FALSE
    /\ xcleared' = FALSE
    /\ xbeats' = 0
    /\ xlast' = "none"
    /\ UNCHANGED <<xcontent, xminR, xminH, xfailed>>

\* record_transformation_effort(belief, kind, notes, evidence?): one more
\* reflection; the evidence, when given, may bring the aggregate trust to
\* the evidence threshold and may clear the stability threshold
RecordTransformationEffort(evidence, clears) ==
    /\ xactive
    /\ xcount < MaxReflections
    /\ xcount' = xcount + 1
    /\ xevidence' = (xevidence \/ evidence)
    /\ xcleared' = (xcleared \/ (evidence /\ clears))
    /\ xlast' = "none"
    /\ UNCHANGED <<xcontent, xactive, xbeats, xminR, xminH, xfailed>>

\* a heartbeat completes while the exploration is active
HeartbeatPasses ==
    /\ xactive
    /\ xbeats < MaxHeartbeats
    /\ xbeats' = xbeats + 1
    /\ xlast' = "none"
    /\ UNCHANGED <<xcontent, transformationState, xminR, xminH, xfailed>>

\* the requirements of an attempt that are not met, by the reason returned
\* for each (no reason is named for the heartbeat count: any of the typed
\* reasons may come back for it)
UnmetReasons ==
    (IF xcount < xminR THEN {"insufficient_reflections"} ELSE {})
      \cup (IF ~xevidence THEN {"insufficient_evidence"} ELSE {})
      \cup (IF ~xcleared THEN {"stability_not_cleared"} ELSE {})
      \cup (IF xbeats < xminH THEN TransformationReasons ELSE {})

RequirementsMet ==
    /\ xcount >= xminR
    /\ xbeats >= xminH
    /\ xevidence
    /\ xcleared

\* a failed attempt that also ends the exploration
AttemptAbandoningOnFailure(reason) ==
    /\ xactive
    /\ IF RequirementsMet
         THEN /\ xcontent' = "new"
              /\ xactive' = FALSE
              /\ xlast' = "success"
              /\ UNCHANGED <<xcount, xevidence, xcleared, xfailed>>
         ELSE /\ reason \in UnmetReasons
              /\ xlast' = reason
              /\ xfailed' = TRUE
              /\ xactive' = FALSE
              /\ xcount' = 0
              /\ UNCHANGED <<xcontent, xevidence, xcleared>>
    /\ UNCHANGED <<xbeats, xminR, xminH>>

\* attempt_worldview_transformation(belief, new_content, mode): succeeds
\* only when every requirement is met; a failure returns a typed reason and
\* leaves the exploration active
AttemptWorldviewTransformation(reason) ==
    /\ xactive
    /\ IF RequirementsMet
         THEN /\ xcontent' = "new"
              /\ xactive' = FALSE
              /\ xlast' = "success"
              /\ UNCHANGED <<xcount, xevidence, xcleared, xfailed>>
         ELSE /\ reason \in UnmetReasons
              /\ xlast' = reason
              /\ xfailed' = TRUE
              /\ UNCHANGED <<xcontent, transformationState>>
    /\ UNCHANGED <<xbeats, xminR, xminH>>

\* abandon_belief_exploration(belief, reason): resets the state
AbandonBeliefExploration ==
    /\ xactive
    /\ xactive' = FALSE
    /\ xcount' = 0
    /\ xevidence' = FALSE
    /\ xcleared' = FALSE
    /\ xlast' = "none"
    /\ UNCHANGED <<xcontent, xbeats, xminR, xminH, xfailed>>

NextTransform ==
    \/ BeginBeliefExploration /\ UNCHANGED outsideTransform
    \/ \E evidence, clears \in BOOLEAN :
          RecordTransformationEffort(evidence, clears)
            /\ UNCHANGED outsideTransform
    \/ HeartbeatPasses /\ UNCHANGED outsideTransform
    \/ \E reason \in TransformationReasons :
          AttemptWorldviewTransformation(reason) /\ UNCHANGED outsideTransform
    \/ AbandonBeliefExploration /\ UNCHANGED outsideTransform

SpecTransform == InitTransform /\ [][NextTransform]_vars

\* C34: an attempt on a belief whose requirements are not all met returns a
\* typed failure reason and leaves the belief and its transformation_state
\* unchanged with the exploration still active, and an attempt made once
\* the requirements are met succeeds
C34_FailedAttemptLeavesExploration ==
    [][(xlast' # "none" /\ xlast' # xlast) =>
          IF RequirementsMet
            THEN xlast' = "success" /\ xcontent' = "new"
            ELSE /\ xlast' \in TransformationReasons
                 /\ xcontent' = xcontent
                 /\ transformationState' = transformationState
                 /\ xactive']_vars

\* an attempt failed for too few reflections and a later one succeeded
C34_Witness ==
    /\ xfailed
    /\ xlast = "success"
    /\ xcontent = "new"
    /\ xminR = 2

(***************************************************************************)
(* execute_heartbeat_decision on its own, counting the                     *)
(* apply_heartbeat_decision calls it issues, with a store whose batch may  *)
(* come back without an integer next_index.                                *)
(***************************************************************************)
\* the calls followed here before the count is stopped
MaxApplyCalls == 6

\* batch.get("next_index") is an int, or is missing or of another type
NextIndexReplies == {"int", "missing"}

\* execute_heartbeat_decision is entered with a decision: start_index = 0
InitDecisionLoop ==
    /\ InitBroker
    /\ InitQueueIdle
    /\ InitDeleteIdle
    /\ InitConsentIdle
    /\ InitToolsIdle
    /\ InitBatchIdle
    /\ InitMaintenanceIdle
    /\ InitThinkIdle
    /\ InitBridgeIdle
    /\ InitCloneIdle
    /\ InitTransformIdle
    /\ InitToolsConfigIdle
    /\ InitRegistryIdle
    /\ consentValid = TRUE
    /\ running = TRUE
    /\ connected = TRUE
    /\ hpc = "apply_decision"
    /\ agentTerminated = FALSE
    /\ hbOutcome = "running"
    /\ decision \in Decisions
    /\ start_index = 0
    /\ batch = NoBatch
    /\ prevStart = 0
    /\ lastService = "none"
    /\ llmIssued = TRUE
    /\ toolIssued = FALSE
    /\ applyCalls = 0

\* batch = await apply_heartbeat_decision(...), one more call
LoopApplyDecision(outcome) ==
    /\ applyCalls < MaxApplyCalls
    /\ HApplyDecision(outcome)
    /\ applyCalls' = applyCalls + 1

\* start_index for the next turn: next_index when it is an int, else 0
StartIndexAfter(reply, next_index) ==
    IF reply = "int" THEN NextStartIndex(next_index) ELSE 0

\* servicing the pending call and the statements after the try block, with
\* the batch's next_index as the store gave it
LoopServiceCall(outcome, confirm, reply) ==
    /\ hpc = "service_call"
    /\ batch.kind = "tool_use" => outcome # "process_raises"
    /\ batch.kind # "terminate" => confirm = "missing"
    /\ llmIssued' = (llmIssued \/ batch.kind \in {"think", "terminate"})
    /\ toolIssued' = (toolIssued \/ batch.kind = "tool_use")
    /\ lastService' = IF outcome = "ok" THEN "ok" ELSE "failed"
    /\ IF TerminationApplied(batch.kind, outcome, confirm)
         THEN /\ agentTerminated' = TRUE
              /\ hbOutcome' = "terminated"
              /\ running' = FALSE
              /\ hpc' = "sleep"
              /\ UNCHANGED start_index
         ELSE /\ start_index' = StartIndexAfter(reply, batch.next_index)
              /\ hpc' = "apply_decision"
              /\ UNCHANGED <<agentTerminated, hbOutcome, running>>
    /\ UNCHANGED <<consentValid, connected, decision, batch, prevStart,
                   applyCalls>>

NextDecisionLoop ==
    \/ \E outcome \in DecisionQueryOutcomes :
         LoopApplyDecision(outcome) /\ UNCHANGED outsideLoop
    \/ \E outcome \in ServiceOutcomes, confirm \in ConfirmValues,
          reply \in NextIndexReplies :
         LoopServiceCall(outcome, confirm, reply) /\ UNCHANGED outsideLoop

SpecDecisionLoop == InitDecisionLoop /\ [][NextDecisionLoop]_vars

\* C36: execute_heartbeat_decision issues a bounded number of
\* apply_heartbeat_decision calls for a decision with finitely many
\* actions (one per action that needs an external call, and the last one),
\* also when servicing a pending call fails or the store returns no usable
\* next_index
C36_BoundedApplyCalls == applyCalls <= Len(decision) + 1

(***************************************************************************)
(* update_tools_config_sync: enabling and disabling a tool in the stored   *)
(* tools configuration.                                                    *)
(***************************************************************************)
NumTools == 3

ToolNames == 1..NumTools

ToolCategories == {"memory", "web"}

\* the category of a registered tool
CategoryOf(t) == IF t = 1 THEN "memory" ELSE "web"

\* ToolsConfig.from_json of the stored value
InitToolsConfig ==
    /\ InitCoreIdle
    /\ InitRegistryIdle
    /\ InitBridgeIdle
    /\ InitCloneIdle
    /\ InitTransformIdle
    /\ InitLoopIdle
    /\ cfgEnabledNone \in BOOLEAN
    /\ cfgEnabled \in SUBSET ToolNames
    /\ cfgEnabledNone => cfgEnabled = {}
    /\ cfgDisabled \in SUBSET ToolNames
    /\ cfgDisabledCategories \in SUBSET ToolCategories

\* what the configuration says about tool t
ConfigFor(none, enabled, disabled, categories, t) ==
    [in_disabled |-> t \in disabled,
     category_disabled |-> CategoryOf(t) \in categories,
     enabled_list |-> IF none THEN "none"
                      ELSE IF t \in enabled THEN "listed" ELSE "unlisted"]

\* config.is_tool_enabled(t, category) on the stored configuration
ToolEnabled(t) ==
    IsToolEnabled(ConfigFor(cfgEnabledNone, cfgEnabled, cfgDisabled,
                            cfgDisabledCategories, t))

\* update_tools_config_sync(conn, {"enable": t}): enabled becomes a list
\* when it was None, t is appended to it and removed from disabled; save
UpdateEnable(t) ==
    /\ cfgEnabledNone' = FALSE
    /\ cfgEnabled' = cfgEnabled \cup {t}
    /\ cfgDisabled' = cfgDisabled \ {t}
    /\ UNCHANGED cfgDisabledCategories

\* update_tools_config_sync(conn, {"disable": t}): t is appended to
\* disabled and removed from a non-empty enabled list; save
UpdateDisable(t) ==
    /\ cfgDisabled' = cfgDisabled \cup {t}
    /\ cfgEnabled' = cfgEnabled \ {t}
    /\ UNCHANGED <<cfgEnabledNone, cfgDisabledCategories>>

NextToolsConfig ==
    \/ \E t \in ToolNames : UpdateEnable(t) /\ UNCHANGED outsideToolsConfig
    \/ \E t \in ToolNames : UpdateDisable(t) /\ UNCHANGED outsideToolsConfig

SpecToolsConfig == InitToolsConfig /\ [][NextToolsConfig]_vars

\* config.is_tool_enabled(u, category) after the update
ToolEnabledAfter(u) ==
    IsToolEnabled(ConfigFor(cfgEnabledNone', cfgEnabled', cfgDisabled',
                            cfgDisabledCategories', u))

\* C39: enabling or disabling one tool through update_tools_config_sync
\* changes the enabled status of that tool only: every other tool is
\* enabled afterwards exactly when it was enabled before
C39_OtherToolsKeepStatus ==
    [][\A t \in ToolNames :
         (UpdateEnable(t) \/ UpdateDisable(t)) =>
            \A u \in ToolNames \ {t} : ToolEnabledAfter(u) = ToolEnabled(u)]_vars

(***************************************************************************)
(* InstanceRegistry: add, update, remove and set_current on the registry   *)
(* kept in instances.json.                                                 *)
(***************************************************************************)
InitRegistry ==
    /\ InitCoreIdle
    /\ InitBridgeIdle
    /\ InitCloneIdle
    /\ InitTransformIdle
    /\ InitLoopIdle
    /\ InitToolsConfigIdle
    /\ InitRegistryIdle

Operation(op, name, raised) ==
    [op |-> op, name |-> name, raised |-> raised,
     was_current |-> (rcurrent = name)]

\* an operation that raises ValueError before it changes anything
RegistryRefuses(op, name) ==
    /\ rlast' = Operation(op, name, TRUE)
    /\ UNCHANGED <<rinstances, rcurrent, rfileInstances, rfileCurrent>>

\* _save(): CONFIG_FILE.write_text(json.dumps(self._data)), which may raise
RegistrySave(op, name, saveOk) ==
    /\ rfileInstances' = IF saveOk THEN rinstances' ELSE rfileInstances
    /\ rfileCurrent' = IF saveOk THEN rcurrent' ELSE rfileCurrent
    /\ rlast' = Operation(op, name, ~saveOk)

\* InstanceRegistry.add(config); valid says the name matches NAME_PATTERN
RegistryAdd(name, valid, saveOk) ==
    IF name \in rinstances \/ ~valid
      THEN RegistryRefuses("add", name)
      ELSE /\ rinstances' = rinstances \cup {name}
           /\ rcurrent' = rcurrent
           /\ RegistrySave("add", name, saveOk)

\* InstanceRegistry.update(config)
RegistryUpdate(name, saveOk) ==
    IF name \notin rinstances
      THEN RegistryRefuses("update", name)
      ELSE /\ UNCHANGED <<rinstances, rcurrent>>
           /\ RegistrySave("update", name, saveOk)

\* remove that leaves current as it is
RegistryRemoveKeepingCurrent(name, saveOk) ==
    IF name \notin rinstances
      THEN RegistryRefuses("remove", name)
      ELSE /\ rinstances' = rinstances \ {name}
           /\ rcurrent' = rcurrent
           /\ RegistrySave("remove", name, saveOk)

\* InstanceRegistry.remove(name)
RegistryRemove(name, saveOk) ==
    IF name \notin rinstances
      THEN RegistryRefuses("remove", name)
      ELSE /\ rinstances' = rinstances \ {name}
           /\ rcurrent' = IF rcurrent = name THEN 0 ELSE rcurrent
           /\ RegistrySave("remove", name, saveOk)

\* InstanceRegistry.set_current(name)
RegistrySetCurrent(name, saveOk) ==
    IF name \notin rinstances
      THEN RegistryRefuses("set_current", name)
      ELSE /\ rcurrent' = name
           /\ rinstances' = rinstances
           /\ RegistrySave("set_current", name, saveOk)

\* InstanceRegistry(): _load() reads instances.json
RegistryLoad ==
    /\ rinstances' = rfileInstances
    /\ rcurrent' = rfileCurrent
    /\ rlast' = NoOperation
    /\ UNCHANGED <<rfileInstances, rfileCurrent>>

NextRegistry ==
    \/ \E name \in Names, valid, saveOk \in BOOLEAN :
          RegistryAdd(name, valid, saveOk) /\ UNCHANGED outsideRegistry
    \/ \E name \in Names, saveOk \in BOOLEAN :
          RegistryUpdate(name, saveOk) /\ UNCHANGED outsideRegistry
    \/ \E name \in Names, saveOk \in BOOLEAN :
          RegistryRemove(name, saveOk) /\ UNCHANGED outsideRegistry
    \/ \E name \in Names, saveOk \in BOOLEAN :
          RegistrySetCurrent(name, saveOk) /\ UNCHANGED outsideRegistry
    \/ RegistryLoad /\ UNCHANGED outsideRegistry

SpecRegistry == InitRegistry /\ [][NextRegistry]_vars

\* C40: after any sequence of add, update, remove and set_current on an
\* instance registry, the ones that raise included, current is null or the
\* name of a registered instance, in the object and in the file it saved;
\* after the current instance is removed current is null
C40_CurrentIsRegistered ==
    /\ rcurrent = 0 \/ rcurrent \in rinstances
    /\ rfileCurrent = 0 \/ rfileCurrent \in rfileInstances
    /\ (rlast.op = "remove" /\ rlast.was_current /\ rlast.name \notin rinstances)
          => rcurrent = 0

\* the current instance was removed while another one stays registered
C40_Witness ==
    /\ rlast.op = "remove"
    /\ rlast.was_current
    /\ rlast.name \notin rinstances
    /\ rinstances # {}

====
